---- MODULE Spec2Model ----
(***************************************************************************)
(* Model of the DynamoDBModel data-access class (codec, retry executor and *)
(* the facade operations) of ProjectBallsBackend.                          *)
(*                                                                         *)
(* JavaScript values are records tagged by the field t:                    *)
(*   string, number, boolean, null, undefined, array, object, buffer.      *)
(* An object is the sequence of its own enumerable entries in insertion    *)
(* order.  A thrown exception is a record with t = "throw".  Numbers are   *)
(* the integers and NaN; strings are TLA+ strings.                         *)
(***************************************************************************)
EXTENDS Integers, Sequences, FiniteSets, TLC

VARIABLES
    config,      \* this.config of the DynamoDBModel instance
    cPc,         \* codec run: "start", "encoded", "decoded"
    cTable,      \* codec run: table_name argument ("" = not passed)
    cItem,       \* codec run: the object handed to the encoder
    cEnc,        \* codec run: what convertToDynamoDBAttributeValue returned or threw
    cDec,        \* codec run: what convertToObject returned or threw
    pc,          \* facade call: "idle", "calling", "sleeping", "done"
    call,        \* facade call: operation name and its arguments
    caller,      \* facade call: the argument objects as the caller holds them now
    params,      \* facade call: the command input built by the handler
    operation,   \* facade call: the closure awaited: "send", "noop", "direct", "none"
    retryCount,  \* retryWithBackoff: the retryCount argument of the running frame
    outcomes,    \* the outcome of every invocation of the operation, in order
    sent,        \* the command inputs handed to dynamodbClient.send, in order
    sleeps,      \* the delays passed to setTimeout, in order
    response,    \* what the awaited store expression resolved with
    result,      \* what the facade call returned or threw
    runs,        \* concurrent executions of retryWithBackoff, one record each; the
                 \* batch writes of deleteSnippets are such executions
    mPc,         \* deleteSnippets: "idle", "start", "writing", "deleting", "done"
    snippets,    \* deleteSnippets: the snippets argument
    deleteArray, \* deleteSnippets: the chunks built by the reduce
    written,     \* the batch-write inputs the store has applied, in completion order
    s3sent,      \* the commands handed to s3Client.send, in order
    mResult,     \* deleteSnippets: what the mutation returned or threw
    gPc,         \* appDynamodbConfig: "idle", "start", "done"
    gCall,       \* appDynamodbConfig: the arguments of the call
    gConfig,     \* appDynamodbConfig: the config object as the caller holds it now
    gOut         \* appDynamodbConfig: what the call returned

vars == <<config, cPc, cTable, cItem, cEnc, cDec, pc, call, caller, params, operation,
          retryCount, outcomes, sent, sleeps, response, result, runs, mPc, snippets,
          deleteArray, written, s3sent, mResult, gPc, gCall, gConfig, gOut>>

codecVars == <<cPc, cTable, cItem, cEnc, cDec>>
facadeVars == <<pc, call, caller, params, operation, retryCount, outcomes, sent, sleeps,
                response, result>>
runVars == <<runs>>
mutationVars == <<mPc, snippets, deleteArray, written, s3sent, mResult>>
genVars == <<gPc, gCall, gConfig, gOut>>

-----------------------------------------------------------------------------
(* Bounds of the explored input space *)

MaxListLen == 2        \* longest array drawn as an attribute value
MaxCustomRetries == 2  \* largest maxRetries of a caller-supplied retryOptions
MaxSnippets == 51      \* longest snippets list passed to deleteSnippets
MaxBatchPuts == 30     \* longest put list handed to batchWriteItem

-----------------------------------------------------------------------------
(* JavaScript values *)

Str(s) == [t |-> "string", s |-> s]
Num(n) == [t |-> "number", nan |-> FALSE, n |-> n]
NaN == [t |-> "number", nan |-> TRUE, n |-> 0]
Bool(b) == [t |-> "boolean", b |-> b]
Null == [t |-> "null"]
Undef == [t |-> "undefined"]
Arr(a) == [t |-> "array", a |-> a]
Obj(o) == [t |-> "object", o |-> o]
Buf(bytes) == [t |-> "buffer", bytes |-> bytes]
KV(k, v) == [k |-> k, v |-> v]

\* throw new Error(`...`): msg names the message template, table and key its
\* interpolated ${table_name} and ${key}; code is error.code ("" when unset).
Throw(name, msg, table, key) ==
    [t |-> "throw", name |-> name, msg |-> msg, table |-> table, key |-> key,
     code |-> ""]

IsThrow(v) == v.t = "throw"

\* typeof v
TypeOf(v) ==
    CASE v.t \in {"null", "array", "object", "buffer"} -> "object"
      [] OTHER -> v.t

\* ToBoolean(v), as used by if (v), !v, a && b, a || b, a ? b : c
Truthy(v) ==
    CASE v.t = "string" -> v.s # ""
      [] v.t = "number" -> ~v.nan /\ v.n # 0
      [] v.t = "boolean" -> v.b
      [] v.t \in {"null", "undefined"} -> FALSE
      [] OTHER -> TRUE

Digits == <<"0", "1", "2", "3", "4", "5", "6", "7", "8", "9">>

RECURSIVE NatToString(_)
NatToString(n) ==
    IF n < 10 THEN Digits[n + 1]
    ELSE NatToString(n \div 10) \o Digits[(n % 10) + 1]

\* Number.prototype.toString() on the modelled numbers
NumberToString(v) ==
    IF v.nan THEN "NaN"
    ELSE IF v.n < 0 THEN "-" \o NatToString(-v.n)
    ELSE NatToString(v.n)

IsDigit(c) == \E d \in 1..10 : Digits[d] = c
DigitVal(c) == (CHOOSE d \in 1..10 : Digits[d] = c) - 1
AllDigits(s) == Len(s) > 0 /\ \A i \in 1..Len(s) : IsDigit(SubSeq(s, i, i))

RECURSIVE ParseNat(_, _)
ParseNat(s, acc) ==
    IF s = "" THEN acc ELSE ParseNat(Tail(s), acc * 10 + DigitVal(Head(s)))

\* Number(s) for a string: StringToNumber of the decimal integer literals
\* ("" is 0, a sign is allowed, anything else is NaN).
StringToNumber(s) ==
    IF s = "" THEN Num(0)
    ELSE IF AllDigits(s) THEN Num(ParseNat(s, 0))
    ELSE IF Head(s) = "-" /\ AllDigits(Tail(s)) THEN Num(0 - ParseNat(Tail(s), 0))
    ELSE IF Head(s) = "+" /\ AllDigits(Tail(s)) THEN Num(ParseNat(Tail(s), 0))
    ELSE NaN

\* Number(v) for any value (ToNumber); an array converts through its
\* string form, which for zero or one primitive element is that element's.
ToNumber(v) ==
    CASE v.t = "number" -> v
      [] v.t = "string" -> StringToNumber(v.s)
      [] v.t = "boolean" -> IF v.b THEN Num(1) ELSE Num(0)
      [] v.t = "null" -> Num(0)
      [] v.t = "array" ->
            IF Len(v.a) = 0 THEN Num(0)
            ELSE IF Len(v.a) = 1 /\ v.a[1].t = "string" THEN StringToNumber(v.a[1].s)
            ELSE IF Len(v.a) = 1 /\ v.a[1].t = "number" THEN v.a[1]
            ELSE IF Len(v.a) = 1 /\ v.a[1].t \in {"null", "undefined"} THEN Num(0)
            ELSE NaN
      [] OTHER -> NaN

\* Object.entries(v) for a value that is not null or undefined
Entries(v) ==
    CASE v.t = "object" -> v.o
      [] v.t = "array" -> [i \in 1..Len(v.a) |-> KV(NatToString(i - 1), v.a[i])]
      [] v.t = "buffer" ->
            [i \in 1..Len(v.bytes) |-> KV(NatToString(i - 1), Num(v.bytes[i]))]
      [] v.t = "string" ->
            [i \in 1..Len(v.s) |-> KV(NatToString(i - 1), Str(SubSeq(v.s, i, i)))]
      [] OTHER -> <<>>

\* obj.hasOwnProperty(k) for a property name k that is not an array index
HasOwn(v, k) == v.t = "object" /\ \E i \in 1..Len(v.o) : v.o[i].k = k

\* v.k for a value that is not null or undefined; k is not an array index
Prop(v, k) ==
    IF HasOwn(v, k)
    THEN v.o[CHOOSE i \in 1..Len(v.o) : v.o[i].k = k].v
    ELSE Undef

\* obj[k] = x : an existing property keeps its position
SetProp(v, k, x) ==
    IF HasOwn(v, k)
    THEN Obj([i \in 1..Len(v.o) |-> IF v.o[i].k = k THEN KV(k, x) ELSE v.o[i]])
    ELSE Obj(Append(v.o, KV(k, x)))

RECURSIVE AssignAll(_, _)
\* Object.assign(target, src) and the spread {...target, ...src}
AssignAll(target, es) ==
    IF es = <<>> THEN target
    ELSE AssignAll(SetProp(target, es[1].k, es[1].v), Tail(es))

\* the properties of obj other than those named in ks (rest destructuring)
Rest(v, ks) == SelectSeq(Entries(v), LAMBDA e : e.k \notin ks)

HasThrow(seq) == \E i \in 1..Len(seq) : IsThrow(seq[i])
\* the exception of the first element whose evaluation throws
FirstThrow(seq) ==
    seq[CHOOSE i \in 1..Len(seq) :
            IsThrow(seq[i]) /\ \A j \in 1..(i - 1) : ~IsThrow(seq[j])]

-----------------------------------------------------------------------------
(* The schema configuration.  video and snippet are the tables of          *)
(* .polymer/infrastructure.yml as appDynamodbConfig emits them; sample is  *)
(* a hash-key-only table that declares one attribute of every type tag.    *)

NoTag == ""

VideoConfig ==
    [table_name |-> "video-ProjectBalls", hash_key |-> "userId", range_key |-> "id",
     key_attributes |-> [id |-> "S", userId |-> "S"],
     attributes |-> [key |-> "S", name |-> "S", description |-> "S"],
     hasIndexes |-> FALSE,
     indexes |-> <<>>]

SnippetConfig ==
    [table_name |-> "snippet-ProjectBalls", hash_key |-> "userId", range_key |-> "id",
     key_attributes |-> [id |-> "S", videoId |-> "S", userId |-> "S"],
     attributes |-> [labels |-> "NS", start_time |-> "N", end_time |-> "N",
                     key |-> "S", name |-> "S"],
     hasIndexes |-> TRUE,
     indexes |-> ("videoId-id" :> [hash_key |-> "videoId", range_key |-> "id"])]

SampleConfig ==
    [table_name |-> "sample-ProjectBalls", hash_key |-> "pk", range_key |-> "",
     key_attributes |-> [pk |-> "S"],
     attributes |-> [s |-> "S", n |-> "N", flag |-> "BOOL", nul |-> "NULL",
                     l |-> "L", m |-> "M", bin |-> "B", ss |-> "SS",
                     ns |-> "NS", bs |-> "BS"],
     hasIndexes |-> FALSE,
     indexes |-> <<>>]

Config0 == [video |-> VideoConfig, snippet |-> SnippetConfig, sample |-> SampleConfig]

\* this.config.hasOwnProperty(table) / truthiness of this.config[table]
HasTable(cfg, table) == table \in DOMAIN cfg

\* tableConfig.attributes[key] || tableConfig.key_attributes[key] || null
AttributeType(tableConfig, key) ==
    IF key \in DOMAIN tableConfig.attributes THEN tableConfig.attributes[key]
    ELSE IF key \in DOMAIN tableConfig.key_attributes THEN tableConfig.key_attributes[key]
    ELSE NoTag

-----------------------------------------------------------------------------
(* AttributeCodec *)

\* the result of encoding the entries es one by one into enc: the first
\* exception thrown, or the object holding every encoded entry
FromEntries(es, enc) ==
    IF HasThrow(enc) THEN FirstThrow(enc)
    ELSE Obj([i \in 1..Len(es) |-> KV(es[i].k, enc[i])])

\* { L: value.map(...) } once every element is encoded
ListValue(es) == IF HasThrow(es) THEN FirstThrow(es) ELSE Obj(<<KV("L", Arr(es))>>)

\* { M: this.convertToDynamoDBAttributeValue(value) }
MapValue(m) == IF IsThrow(m) THEN m ELSE Obj(<<KV("M", m)>>)

RECURSIVE EncodeFreeValue(_, _), EncodeFree(_)

\* the loop body of convertToDynamoDBAttributeValue when no table is passed
EncodeFreeValue(key, value) ==
    CASE value.t = "string" -> Obj(<<KV("S", value)>>)
      [] value.t = "number" -> Obj(<<KV("N", Str(NumberToString(value)))>>)
      [] value.t = "boolean" -> Obj(<<KV("BOOL", value)>>)
      [] value.t = "null" -> Obj(<<KV("NULL", Bool(TRUE))>>)
      [] value.t = "array" ->
            ListValue([i \in 1..Len(value.a) |-> EncodeFreeValue("item", value.a[i])])
      [] value.t \in {"object", "buffer"} ->
            \* typeof value === 'object' is tested before Buffer.isBuffer(value)
            MapValue(EncodeFree(value))
      [] OTHER -> Throw("Error", "UnsupportedValueType", "false", key)

\* convertToDynamoDBAttributeValue(obj) for an obj that has entries to list
EncodeFree(obj) ==
    FromEntries(Entries(obj),
            [i \in 1..Len(Entries(obj)) |->
                EncodeFreeValue(Entries(obj)[i].k, Entries(obj)[i].v)])

InvalidValueType(table, key, tag) ==
    Throw("Error", "InvalidValueType expected " \o tag, table, key)

\* the switch on the declared attributeType
EncodeAs(attributeType, table, key, value) ==
    CASE attributeType = "S" ->
            IF TypeOf(value) # "string" THEN InvalidValueType(table, key, "S")
            ELSE Obj(<<KV("S", value)>>)
      [] attributeType = "N" ->
            IF TypeOf(value) # "number" THEN InvalidValueType(table, key, "N")
            ELSE Obj(<<KV("N", Str(NumberToString(value)))>>)
      [] attributeType = "BOOL" ->
            IF TypeOf(value) # "boolean" THEN InvalidValueType(table, key, "BOOL")
            ELSE Obj(<<KV("BOOL", value)>>)
      [] attributeType = "NULL" ->
            IF value.t # "null" THEN InvalidValueType(table, key, "NULL")
            ELSE Obj(<<KV("NULL", Bool(TRUE))>>)
      [] attributeType = "L" ->
            IF value.t # "array" THEN InvalidValueType(table, key, "L")
            ELSE ListValue([i \in 1..Len(value.a) |->
                                EncodeFreeValue("item", value.a[i])])
      [] attributeType = "M" ->
            IF TypeOf(value) # "object" \/ value.t = "null"
            THEN InvalidValueType(table, key, "M")
            ELSE MapValue(EncodeFree(value))
      [] attributeType = "B" ->
            IF value.t # "buffer" THEN InvalidValueType(table, key, "B")
            ELSE Obj(<<KV("B", value)>>)
      [] attributeType = "SS" ->
            IF value.t # "array" \/ \E i \in 1..Len(value.a) : value.a[i].t # "string"
            THEN InvalidValueType(table, key, "SS")
            ELSE Obj(<<KV("SS", value)>>)
      [] attributeType = "NS" ->
            IF value.t # "array" \/ \E i \in 1..Len(value.a) : value.a[i].t # "number"
            THEN InvalidValueType(table, key, "NS")
            ELSE Obj(<<KV("NS", Arr([i \in 1..Len(value.a) |->
                                        Str(NumberToString(value.a[i]))]))>>)
      [] attributeType = "BS" ->
            IF value.t # "array" \/ \E i \in 1..Len(value.a) : value.a[i].t # "buffer"
            THEN InvalidValueType(table, key, "BS")
            ELSE Obj(<<KV("BS", value)>>)
      [] OTHER -> Throw("Error", "UnsupportedAttributeType", table, key)

\* the loop body of convertToDynamoDBAttributeValue when a table is passed
EncodeTyped(cfg, table, key, value) ==
    IF ~HasTable(cfg, table) THEN Throw("Error", "TableNotDefined", table, "")
    ELSE IF AttributeType(cfg[table], key) = NoTag
    THEN Throw("Error", "AttributeNotDefined", table, key)
    ELSE EncodeAs(AttributeType(cfg[table], key), table, key, value)

\* convertToDynamoDBAttributeValue(obj, table_name); table = "" stands for
\* the default table_name = false (any falsy table_name takes that path).
convertToDynamoDBAttributeValue(cfg, obj, table) ==
    IF obj.t \in {"null", "undefined"}
    THEN Throw("TypeError", "CannotConvertUndefinedOrNullToObject", "", "")
    ELSE IF table = "" THEN EncodeFree(obj)
    ELSE FromEntries(Entries(obj),
                 [i \in 1..Len(Entries(obj)) |->
                     EncodeTyped(cfg, table, Entries(obj)[i].k, Entries(obj)[i].v)])

\* the NS branch: value.NS.map(Number)
DecodeNumberSet(key, ns) ==
    IF ns.t = "array" THEN Arr([i \in 1..Len(ns.a) |-> ToNumber(ns.a[i])])
    ELSE IF ns.t = "buffer" THEN ns
    ELSE Throw("TypeError", "MapIsNotAFunction", "", key)

\* this.convertToObject({ item }).item
ItemOf(d) == IF IsThrow(d) THEN d ELSE Prop(d, "item")

\* value.L.map(...) once every element is decoded
DecodedList(ds) == IF HasThrow(ds) THEN FirstThrow(ds) ELSE Arr(ds)

RECURSIVE DecodeValue(_, _), convertToObject(_)

\* the loop body of convertToObject for one [key, value] entry
DecodeValue(key, value) ==
    IF TypeOf(value) = "object" /\ value.t # "null"
    THEN
        IF Prop(value, "S") # Undef THEN Prop(value, "S")
        ELSE IF Prop(value, "N") # Undef THEN ToNumber(Prop(value, "N"))
        ELSE IF Prop(value, "BOOL") # Undef THEN Bool(Prop(value, "BOOL") = Bool(TRUE))
        ELSE IF Prop(value, "NULL") # Undef THEN Null
        ELSE IF Prop(value, "SS") # Undef THEN Prop(value, "SS")
        ELSE IF Prop(value, "NS") # Undef THEN DecodeNumberSet(key, Prop(value, "NS"))
        ELSE IF Prop(value, "BS") # Undef THEN Prop(value, "BS")
        ELSE IF Prop(value, "L").t = "array" THEN
            DecodedList([i \in 1..Len(Prop(value, "L").a) |->
                            ItemOf(convertToObject(
                                Obj(<<KV("item", Prop(value, "L").a[i])>>)))])
        ELSE IF TypeOf(Prop(value, "M")) = "object" /\ Prop(value, "M").t # "null"
        THEN convertToObject(Prop(value, "M"))
        ELSE Throw("Error", "UnsupportedValueFormat", "", key)
    ELSE Throw("Error", "InvalidValueFormat", "", key)

\* static convertToObject(input)
convertToObject(input) ==
    IF TypeOf(input) # "object" \/ input.t = "null"
    THEN Throw("Error", "InvalidInput", "", "")
    ELSE FromEntries(Entries(input),
                 [i \in 1..Len(Entries(input)) |->
                     DecodeValue(Entries(input)[i].k, Entries(input)[i].v)])

-----------------------------------------------------------------------------
(* Codec runs: an object and a table are drawn, encoded, and the encoding  *)
(* is decoded.                                                             *)

NoCall == [op |-> "none"]

FacadeIdle ==
    /\ pc = "idle"
    /\ call = NoCall
    /\ caller = NoCall
    /\ params = Undef
    /\ operation = "none"
    /\ retryCount = 0
    /\ outcomes = <<>>
    /\ sent = <<>>
    /\ sleeps = <<>>
    /\ response = Undef
    /\ result = Undef

\* no concurrent execution, no mutation and no schema generation is under way
RunsIdle == runs = <<>>

MutationIdle ==
    /\ mPc = "idle"
    /\ snippets = Undef
    /\ deleteArray = <<>>
    /\ written = <<>>
    /\ s3sent = <<>>
    /\ mResult = Undef

GenIdle ==
    /\ gPc = "idle"
    /\ gCall = NoCall
    /\ gConfig = Undef
    /\ gOut = Undef

SeqsUpTo(S, n) == UNION {[1..k -> S] : k \in 0..n}

ScalarValues ==
    {Str(""), Str("a"), Str("12"), Num(0), Num(-7), Num(12), Bool(TRUE),
     Bool(FALSE), Null, Undef, Buf(<<1, 2>>)}

ElementValues ==
    {Str("a"), Num(-7), Num(12), Bool(FALSE), Null, Undef, Buf(<<1, 2>>)}

ArrayValues == {Arr(a) : a \in SeqsUpTo(ElementValues, MaxListLen)}

ObjectValues ==
    {Obj(<<>>)}
    \cup {Obj(<<KV("p", v)>>) : v \in ElementValues}
    \cup {Obj(<<KV("p", v), KV("q", w)>>) : v \in {Str("a"), Num(12)},
                                             w \in {Num(0), Bool(TRUE)}}

NestedValues ==
    {Arr(<<c>>) : c \in ArrayValues \cup ObjectValues}
    \cup {Obj(<<KV("p", c)>>) : c \in ArrayValues \cup ObjectValues}

CodecValues == ScalarValues \cup ArrayValues \cup ObjectValues \cup NestedValues

SampleKeys == DOMAIN SampleConfig.attributes \cup {"pk", "ghost"}

CodecItems(table) ==
    CASE table = "sample" ->
            {Obj(<<KV(k, v)>>) : k \in SampleKeys, v \in CodecValues}
            \cup {Obj(<<KV("pk", Str("a")), KV("n", n), KV("m", m)>>) :
                    n \in {Num(12), Str("12")},
                    m \in {Obj(<<KV("p", Num(0))>>), Arr(<<Num(0)>>), Null}}
            \cup {Obj(<<>>), Null, Str("ab"), Arr(<<Str("a")>>)}
      [] table = "snippet" ->
            {Obj(<<KV("userId", Str("a")), KV("id", Str("12")), KV("labels", l),
                   KV("start_time", n)>>) :
                l \in {Arr(<<Num(-7), Num(12)>>), Arr(<<Num(-7), Str("12")>>), Arr(<<>>)},
                n \in {Num(0), Str(""), Undef}}
      [] table = "nosuch" ->
            {Obj(<<>>), Obj(<<KV("pk", Str("a"))>>)}
      [] OTHER ->
            {Obj(<<KV("x", v)>>) : v \in CodecValues} \cup {Undef, Buf(<<1, 2>>)}

CodecTables == {"sample", "snippet", "nosuch", ""}

CodecInit ==
    /\ config = Config0
    /\ cPc = "start"
    /\ cTable \in CodecTables
    /\ cItem \in CodecItems(cTable)
    /\ cEnc = Undef
    /\ cDec = Undef
    /\ FacadeIdle
    /\ RunsIdle
    /\ MutationIdle
    /\ GenIdle

CodecEncode ==
    /\ cPc = "start"
    /\ cEnc' = convertToDynamoDBAttributeValue(config, cItem, cTable)
    /\ cPc' = "encoded"
    /\ UNCHANGED <<config, cTable, cItem, cDec, facadeVars, runVars, mutationVars, genVars>>

CodecDecode ==
    /\ cPc = "encoded"
    /\ ~IsThrow(cEnc)
    /\ cDec' = convertToObject(cEnc)
    /\ cPc' = "decoded"
    /\ UNCHANGED <<config, cTable, cItem, cEnc, facadeVars, runVars, mutationVars, genVars>>

CodecNext == CodecEncode \/ CodecDecode

CodecSpec == CodecInit /\ [][CodecNext]_vars

-----------------------------------------------------------------------------
(* Claims about the codec *)

ClosedTags == {"S", "N", "BOOL", "NULL", "SS", "NS", "BS", "L", "M", "B"}

RECURSIVE Representable(_)
\* a Value of the data model: a scalar, a binary, a list or a map of Values
Representable(v) ==
    CASE v.t \in {"string", "boolean", "null", "buffer"} -> TRUE
      [] v.t = "number" -> ~v.nan
      [] v.t = "array" -> \A i \in 1..Len(v.a) : Representable(v.a[i])
      [] v.t = "object" -> \A i \in 1..Len(v.o) : Representable(v.o[i].v)
      [] OTHER -> FALSE

\* the runtime shape of v is exactly the one the tag declares
ShapeMatches(tag, v) ==
    CASE tag = "S" -> v.t = "string"
      [] tag = "N" -> v.t = "number"
      [] tag = "BOOL" -> v.t = "boolean"
      [] tag = "NULL" -> v.t = "null"
      [] tag = "B" -> v.t = "buffer"
      [] tag = "L" -> v.t = "array"
      [] tag = "M" -> v.t = "object"
      [] tag = "SS" -> v.t = "array" /\ \A i \in 1..Len(v.a) : v.a[i].t = "string"
      [] tag = "NS" -> v.t = "array" /\ \A i \in 1..Len(v.a) : v.a[i].t = "number"
      [] tag = "BS" -> v.t = "array" /\ \A i \in 1..Len(v.a) : v.a[i].t = "buffer"
      [] OTHER -> FALSE

\* the entry is declared with a tag of the closed set and its value matches it
EntryTyped(cfg, table, e) ==
    /\ AttributeType(cfg[table], e.k) \in ClosedTags
    /\ ShapeMatches(AttributeType(cfg[table], e.k), e.v)
    /\ Representable(e.v)

SchemaTyped(cfg, table, item) ==
    /\ HasTable(cfg, table)
    /\ item.t = "object"
    /\ \A i \in 1..Len(item.o) : EntryTyped(cfg, table, item.o[i])

\* C1: for every item whose attributes are declared in the table's schema
\* and whose values match their declared tags (nested List and Map values
\* included), the encoder succeeds and decoding its output gives back the
\* item: convertToObject(convertToDynamoDBAttributeValue(I, table)) = I.
C1_RoundTrip ==
    SchemaTyped(config, cTable, cItem) =>
        /\ cPc # "start" => ~IsThrow(cEnc)
        /\ cPc = "decoded" => cDec = cItem

\* the first entry of the item that is not well typed, if it is a declared
\* attribute whose value has another shape than its tag
MismatchAt(cfg, table, item, i) ==
    /\ i \in 1..Len(item.o)
    /\ \A j \in 1..(i - 1) : EntryTyped(cfg, table, item.o[j])
    /\ AttributeType(cfg[table], item.o[i].k) \in ClosedTags
    /\ ~ShapeMatches(AttributeType(cfg[table], item.o[i].k), item.o[i].v)

\* C2: schema-directed encoding of an item in which a declared attribute's
\* value has a shape other than its declared tag throws the type-mismatch
\* error naming the table and that attribute, and returns no encoded item.
C2_TypeMismatchRejected ==
    (cPc # "start" /\ HasTable(config, cTable) /\ cItem.t = "object") =>
        \A i \in 1..Len(cItem.o) :
            MismatchAt(config, cTable, cItem, i) =>
                cEnc = InvalidValueType(cTable, cItem.o[i].k,
                                        AttributeType(config[cTable], cItem.o[i].k))

RECURSIVE InferredByShape(_)
\* the wire value the runtime shape of v stands for: string S, number N,
\* boolean BOOL, null NULL, binary B, sequence L, mapping M; Undef for any
\* other shape, also when it is nested
InferredByShape(v) ==
    CASE v.t = "string" -> Obj(<<KV("S", v)>>)
      [] v.t = "number" -> Obj(<<KV("N", Str(NumberToString(v)))>>)
      [] v.t = "boolean" -> Obj(<<KV("BOOL", v)>>)
      [] v.t = "null" -> Obj(<<KV("NULL", Bool(TRUE))>>)
      [] v.t = "buffer" -> Obj(<<KV("B", v)>>)
      [] v.t = "array" ->
            IF \E i \in 1..Len(v.a) : InferredByShape(v.a[i]) = Undef THEN Undef
            ELSE Obj(<<KV("L", Arr([i \in 1..Len(v.a) |-> InferredByShape(v.a[i])]))>>)
      [] v.t = "object" ->
            IF \E i \in 1..Len(v.o) : InferredByShape(v.o[i].v) = Undef THEN Undef
            ELSE Obj(<<KV("M", Obj([i \in 1..Len(v.o) |->
                                       KV(v.o[i].k, InferredByShape(v.o[i].v))]))>>)
      [] OTHER -> Undef

\* C11: encoding without a table gives every attribute the wire value its
\* runtime shape stands for (a binary buffer becomes B, lists and maps are
\* inferred recursively), and fails with the unsupported-type error when an
\* attribute has any other shape.
C11_SchemaFreeInference ==
    (cPc # "start" /\ cTable = "" /\ cItem.t = "object") =>
        IF \E i \in 1..Len(cItem.o) : InferredByShape(cItem.o[i].v) = Undef
        THEN IsThrow(cEnc) /\ cEnc.msg = "UnsupportedValueType"
        ELSE cEnc = Obj([i \in 1..Len(cItem.o) |->
                            KV(cItem.o[i].k, InferredByShape(cItem.o[i].v))])

-----------------------------------------------------------------------------
(* Decoder runs: a wire item, as a store response may carry it, is handed  *)
(* to convertToObject.                                                     *)

WireLeaves ==
    {Obj(<<KV("S", Str("a"))>>), Obj(<<KV("N", Str("12"))>>),
     Obj(<<KV("N", Str("-7"))>>), Obj(<<KV("N", Str("abc"))>>),
     Obj(<<KV("N", Str("1x"))>>), Obj(<<KV("BOOL", Bool(TRUE))>>),
     Obj(<<KV("BOOL", Bool(FALSE))>>), Obj(<<KV("NULL", Bool(TRUE))>>),
     Obj(<<KV("SS", Arr(<<Str("a"), Str("b")>>))>>),
     Obj(<<KV("NS", Arr(<<Str("1"), Str("-1")>>))>>),
     Obj(<<KV("NS", Arr(<<Str("1"), Str("x")>>))>>),
     Obj(<<KV("BS", Arr(<<Buf(<<1, 2>>)>>))>>),
     Obj(<<KV("L", Arr(<<>>))>>), Obj(<<KV("L", Str("a"))>>),
     Obj(<<KV("L", Obj(<<>>))>>), Obj(<<KV("L", Null)>>),
     Obj(<<KV("M", Obj(<<>>))>>), Obj(<<KV("M", Str("a"))>>),
     Obj(<<KV("M", Num(5))>>), Obj(<<KV("M", Null)>>),
     Obj(<<KV("X", Str("a"))>>), Obj(<<>>),
     Str("a"), Num(5), Bool(TRUE), Null, Undef}

WireNested ==
    {Obj(<<KV("L", Arr(<<w>>))>>) : w \in WireLeaves}
    \cup {Obj(<<KV("L", Arr(<<Obj(<<KV("S", Str("a"))>>), w>>))>>) : w \in WireLeaves}
    \cup {Obj(<<KV("M", Obj(<<KV("p", w)>>))>>) : w \in WireLeaves}
    \cup {Obj(<<KV("L", Arr(<<Obj(<<KV("M", Obj(<<KV("p", w)>>))>>)>>))>>) :
            w \in WireLeaves}
    \cup {Obj(<<KV("M", Obj(<<KV("p", Obj(<<KV("L", Arr(<<w>>))>>))>>))>>) :
            w \in WireLeaves}

WireValues == WireLeaves \cup WireNested

WireItems ==
    {Obj(<<KV("a", w)>>) : w \in WireValues}
    \cup {Obj(<<KV("a", Obj(<<KV("S", Str("a"))>>)), KV("b", w)>>) : w \in WireLeaves}
    \cup {Obj(<<>>), Null, Undef, Str("a")}

WireInit ==
    /\ config = Config0
    /\ cPc = "encoded"
    /\ cTable = ""
    /\ cItem = Undef
    /\ cEnc \in WireItems
    /\ cDec = Undef
    /\ FacadeIdle
    /\ RunsIdle
    /\ MutationIdle
    /\ GenIdle

WireNext == CodecDecode

WireSpec == WireInit /\ [][WireNext]_vars

RECURSIVE Malformed(_)
\* a wire value that is not a tagged object, carries a tag outside the closed
\* set, or carries a payload its tag does not admit: a non-numeric string
\* under N or in NS, a non-list under L, a non-object under M, at any depth
Malformed(w) ==
    IF w.t # "object" \/ Len(w.o) # 1 THEN TRUE
    ELSE CASE w.o[1].k = "N" ->
                w.o[1].v.t = "string" /\ StringToNumber(w.o[1].v.s).nan
           [] w.o[1].k = "NS" ->
                \/ w.o[1].v.t # "array"
                \/ \E i \in 1..Len(w.o[1].v.a) :
                        /\ w.o[1].v.a[i].t = "string"
                        /\ StringToNumber(w.o[1].v.a[i].s).nan
           [] w.o[1].k = "L" ->
                \/ w.o[1].v.t # "array"
                \/ \E i \in 1..Len(w.o[1].v.a) : Malformed(w.o[1].v.a[i])
           [] w.o[1].k = "M" ->
                \/ w.o[1].v.t # "object"
                \/ \E i \in 1..Len(w.o[1].v.o) : Malformed(w.o[1].v.o[i].v)
           [] OTHER -> w.o[1].k \notin ClosedTags

\* C12: convertToObject throws, and returns no item, when the wire item is
\* not an object or when any of its attributes, at any nesting depth, is
\* malformed: an unrecognized tag, a non-numeric string under N or in NS, a
\* non-list under L, a non-object under M, or a value that is no tagged object.
C12_MalformedWireRejected ==
    cPc = "decoded" =>
        ((cEnc.t # "object" \/ \E i \in 1..Len(cEnc.o) : Malformed(cEnc.o[i].v))
            => IsThrow(cDec))

-----------------------------------------------------------------------------
(* String helpers used by the expression builders *)

\* the least index at which sep occurs in s, or 0
IndexOf(s, sep) ==
    LET hits == {i \in 1..(Len(s) - Len(sep) + 1) : SubSeq(s, i, i + Len(sep) - 1) = sep}
    IN  IF hits = {} THEN 0 ELSE CHOOSE i \in hits : \A j \in hits : i <= j

RECURSIVE Split(_, _)
\* String.prototype.split(sep) for a non-empty separator
Split(s, sep) ==
    LET i == IndexOf(s, sep)
    IN  IF i = 0 THEN <<s>>
        ELSE <<SubSeq(s, 1, i - 1)>> \o Split(SubSeq(s, i + Len(sep), Len(s)), sep)

RECURSIVE Join(_, _)
\* Array.prototype.join(sep) on an array of strings
Join(seq, sep) ==
    IF seq = <<>> THEN ""
    ELSE IF Len(seq) = 1 THEN seq[1]
    ELSE seq[1] \o sep \o Join(Tail(seq), sep)

\* String(v) as string concatenation applies it to a primitive
ToStringJS(v) ==
    CASE v.t = "string" -> v.s
      [] v.t = "number" -> NumberToString(v)
      [] v.t = "boolean" -> IF v.b THEN "true" ELSE "false"
      [] v.t = "null" -> "null"
      [] v.t = "undefined" -> "undefined"
      [] OTHER -> "[object Object]"

\* v || {} followed by a spread into a fresh object
SpreadOrEmpty(v) == IF Truthy(v) THEN Entries(v) ELSE <<>>

RECURSIVE AliasAll(_, _)
\* the map callback of the projection builder, applied to every element:
\* params.ExpressionAttributeNames[`#${element}`] = element
AliasAll(names, elements) ==
    IF elements = <<>> THEN names
    ELSE AliasAll(SetProp(names, "#" \o elements[1], Str(elements[1])), Tail(elements))

\* ProjectionExpression.split(', ').map(element => `#${element}`).join(", ")
ProjectionText(projection) ==
    LET elements == Split(projection, ", ")
    IN  Join([i \in 1..Len(elements) |-> "#" \o elements[i]], ", ")

NotAFunction(what) == Throw("TypeError", "IsNotAFunction", "", what)
CannotReadProperty(what) == Throw("TypeError", "CannotReadPropertiesOfUndefined", "", what)
NotDefined(what) == Throw("ReferenceError", "IsNotDefined", "", what)

\* { ...(params.ExpressionAttributeNames || {}), ...(ExpressionAttributeNames || {}) }
MergedNames(p, other_params) ==
    AssignAll(Obj(SpreadOrEmpty(Prop(p, "ExpressionAttributeNames"))),
              SpreadOrEmpty(Prop(other_params, "ExpressionAttributeNames")))

\* the properties the destructuring of other_params takes out of ...others
TakenParams(withValues) ==
    IF withValues
    THEN {"ProjectionExpression", "ExpressionAttributeNames", "ExpressionAttributeValues"}
    ELSE {"ProjectionExpression", "ExpressionAttributeNames"}

\* params.ExpressionAttributeValues = { ...(params.ExpressionAttributeValues || {}) }
SpreadValues(p, withValues) ==
    IF withValues
    THEN SetProp(p, "ExpressionAttributeValues",
                 Obj(SpreadOrEmpty(Prop(p, "ExpressionAttributeValues"))))
    ELSE p

\* if (ProjectionExpression) { ... } followed by Object.assign(params, others)
AliasProjection(p, ProjectionExpression, names, others) ==
    IF ~Truthy(ProjectionExpression) THEN AssignAll(p, others)
    ELSE IF ProjectionExpression.t # "string" THEN NotAFunction("split")
    ELSE AssignAll(
            SetProp(SetProp(p, "ExpressionAttributeNames",
                            AliasAll(names, Split(ProjectionExpression.s, ", "))),
                    "ProjectionExpression",
                    Str(ProjectionText(ProjectionExpression.s))),
            others)

\* the block  if (other_params) { ... }  shared by getItem, queryItems and
\* scanItems: merges the caller's name/value maps into params, aliases the
\* projection and assigns the remaining entries.  withValues is FALSE for
\* getItem, which destructures no ExpressionAttributeValues.
MergeOtherParams(p, other_params, withValues) ==
    IF ~Truthy(other_params) THEN p
    ELSE IF withValues /\ Truthy(Prop(other_params, "ExpressionAttributeValues"))
    THEN \* the bare identifier convertToDynamoDBAttributeValue is unbound
         NotDefined("convertToDynamoDBAttributeValue")
    ELSE AliasProjection(
            SpreadValues(SetProp(p, "ExpressionAttributeNames",
                                 MergedNames(p, other_params)),
                         withValues),
            Prop(other_params, "ProjectionExpression"),
            MergedNames(p, other_params),
            Rest(other_params, TakenParams(withValues)))

-----------------------------------------------------------------------------
(* KeyValueStoreClient: the synchronous prefix of every facade operation,  *)
(* up to the store call.  Each operator returns the command input or the   *)
(* exception thrown before any store call.                                 *)

\* mutant: the key checks are skipped
MissingKey_unchecked(tableConfig, obj) == Undef

\* the key checks shared by createItem, getItem, updateItem and deleteItem
MissingKey(tableConfig, obj) ==
    IF ~HasOwn(obj, tableConfig.hash_key)
    THEN Throw("Error", "MustIncludeHashKey", "", tableConfig.hash_key)
    ELSE IF tableConfig.range_key # "" /\ ~HasOwn(obj, tableConfig.range_key)
    THEN Throw("Error", "MustIncludeRangeKey", "", tableConfig.range_key)
    ELSE Undef

\* the PutItem input once the item is encoded
PutInput(table_name, Item) ==
    IF IsThrow(Item) THEN Item
    ELSE Obj(<<KV("TableName", Str(table_name)), KV("Item", Item)>>)

createItemParams(cfg, table, item) ==
    IF ~HasTable(cfg, table) THEN Throw("Error", "TableDoesNotExist", table, "")
    ELSE IF ~Truthy(item) \/ TypeOf(item) # "object"
    THEN Throw("Error", "ItemMustBeObject", "", "")
    ELSE IF IsThrow(MissingKey(cfg[table], item)) THEN MissingKey(cfg[table], item)
    ELSE PutInput(cfg[table].table_name, convertToDynamoDBAttributeValue(cfg, item, table))

\* the GetItem input once the key is encoded
GetInput(table_name, Key, other_params) ==
    IF IsThrow(Key) THEN Key
    ELSE MergeOtherParams(Obj(<<KV("TableName", Str(table_name)), KV("Key", Key)>>),
                          other_params, FALSE)

getItemParams(cfg, table, key, other_params) ==
    IF ~HasTable(cfg, table) THEN Throw("Error", "TableDoesNotExist", table, "")
    ELSE IF ~Truthy(key) \/ TypeOf(key) # "object"
    THEN Throw("Error", "KeyMustBeObject", "", "")
    ELSE IF Truthy(other_params) /\ TypeOf(other_params) # "object"
    THEN Throw("Error", "OtherParamsMustBeObject", "", "")
    ELSE IF IsThrow(MissingKey(cfg[table], key)) THEN MissingKey(cfg[table], key)
    ELSE GetInput(cfg[table].table_name,
                  convertToDynamoDBAttributeValue(cfg, key, table), other_params)

\* params.ExpressionAttributeNames["#SK"] = range_key
BindSortKey(p, rangeKeyName) ==
    SetProp(p, "ExpressionAttributeNames",
            SetProp(Prop(p, "ExpressionAttributeNames"), "#SK",
                    IF rangeKeyName = "" THEN Undef ELSE Str(rangeKeyName)))

\* params.KeyConditionExpression += text, with the values the clause binds
RangeClause(p, text, values) ==
    SetProp(SetProp(p, "KeyConditionExpression",
                    Str(ToStringJS(Prop(p, "KeyConditionExpression")) \o text)),
            "ExpressionAttributeValues", values)

\* the comparison a range operation stands for
ComparisonSymbol(op) ==
    IF op = "gt" THEN ">"
    ELSE IF op = "lt" THEN "<"
    ELSE IF op = "ge" THEN ">=" ELSE "<="

\* the between branch once start and end are encoded
BetweenClause(p, startAttributeValue, endAttributeValue) ==
    IF IsThrow(startAttributeValue) THEN startAttributeValue
    ELSE IF IsThrow(endAttributeValue) THEN endAttributeValue
    ELSE RangeClause(p, " AND #SK BETWEEN :start AND :end",
            SetProp(SetProp(Prop(p, "ExpressionAttributeValues"), ":start",
                            Prop(startAttributeValue, "start")),
                    ":end", Prop(endAttributeValue, "end")))

\* a single-value branch once the value is encoded
ConditionClause(p, text, name, conditionAttributeValue) ==
    IF IsThrow(conditionAttributeValue) THEN conditionAttributeValue
    ELSE RangeClause(p, text,
            SetProp(Prop(p, "ExpressionAttributeValues"), name,
                    Prop(conditionAttributeValue, "value")))

\* the switch (operation) of queryItems
RangeSwitch(cfg, p, operation_, value) ==
    IF operation_ = Str("between") /\ value.t = "array" /\ Len(value.a) = 2
    THEN BetweenClause(p,
            convertToDynamoDBAttributeValue(cfg, Obj(<<KV("start", value.a[1])>>), ""),
            convertToDynamoDBAttributeValue(cfg, Obj(<<KV("end", value.a[2])>>), ""))
    ELSE IF operation_ \in {Str("gt"), Str("lt"), Str("ge"), Str("le")}
    THEN ConditionClause(p,
            " AND #SK " \o ComparisonSymbol(operation_.s) \o " :" \o operation_.s,
            ":" \o operation_.s,
            convertToDynamoDBAttributeValue(cfg, Obj(<<KV("value", value)>>), ""))
    ELSE IF operation_ = Str("begins_with") /\ TypeOf(value) = "string"
    THEN ConditionClause(p, " AND begins_with(#SK, :begins_with)", ":begins_with",
            convertToDynamoDBAttributeValue(cfg, Obj(<<KV("value", value)>>), ""))
    ELSE IF operation_ = Str("equals")
    THEN ConditionClause(p, " AND #SK = :equals", ":equals",
            convertToDynamoDBAttributeValue(cfg, Obj(<<KV("value", value)>>), ""))
    ELSE IF operation_ = Str("between")
    THEN Throw("Error", "InvalidRangeKeyBetweenValue", "", ToStringJS(operation_))
    ELSE Throw("Error", "InvalidRangeKeyOperation", "", ToStringJS(operation_))

\* the block  if (sortKeyConditions && typeof sortKeyConditions === "object")
\* of queryItems: binds #SK and appends the range clause to the key condition
RangeCondition(cfg, p, sortKeyConditions, rangeKeyName) ==
    IF IsThrow(p) THEN p
    ELSE IF ~(Truthy(sortKeyConditions) /\ TypeOf(sortKeyConditions) = "object") THEN p
    ELSE RangeSwitch(cfg, BindSortKey(p, rangeKeyName),
                     Prop(sortKeyConditions, "operation"),
                     Prop(sortKeyConditions, "value"))

\* mutant: the key names are always those of the table
KeyNames_tableOnly(tableConfig, indexName) == tableConfig

\* { hash_key, range_key } of the index when IndexName is given, else of the table
KeyNames(tableConfig, indexName) ==
    IF Truthy(indexName) THEN tableConfig.indexes[indexName.s] ELSE tableConfig

\* the Query input once the partition value is encoded
QueryInput(cfg, keyNames, table_name, partition, sortKeyConditions, indexName, other_params) ==
    IF IsThrow(partition) THEN partition
    ELSE RangeCondition(cfg,
            MergeOtherParams(
                Obj(<<KV("TableName", Str(table_name)),
                      KV("IndexName", indexName),
                      KV("KeyConditionExpression", Str("#PK = :PartitionKey")),
                      KV("ExpressionAttributeNames",
                         Obj(<<KV("#PK", Str(keyNames.hash_key))>>)),
                      KV("ExpressionAttributeValues",
                         Obj(<<KV(":PartitionKey", Prop(partition, "hash_key"))>>))>>),
                other_params, TRUE),
            sortKeyConditions, keyNames.range_key)

queryItemsParams(cfg, table, hash_key, sortKeyConditions, indexName, other_params) ==
    IF ~HasTable(cfg, table) THEN Throw("Error", "TableDoesNotExist", table, "")
    ELSE IF ~Truthy(hash_key) THEN Throw("Error", "HashKeyRequired", "", "")
    ELSE IF Truthy(sortKeyConditions)
            /\ (~Truthy(Prop(sortKeyConditions, "operation"))
                \/ ~Truthy(Prop(sortKeyConditions, "value")))
    THEN Throw("Error", "RangeKeyOperationAndValueRequired", "", "")
    ELSE IF Truthy(indexName) /\ ~cfg[table].hasIndexes
    THEN CannotReadProperty(ToStringJS(indexName))
    ELSE IF Truthy(indexName)
            /\ (indexName.t # "string" \/ indexName.s \notin DOMAIN cfg[table].indexes)
    THEN Throw("TypeError", "CannotDestructureUndefined", "", "hash_key")
    ELSE QueryInput(cfg, KeyNames(cfg[table], indexName), cfg[table].table_name,
                    convertToDynamoDBAttributeValue(
                        cfg, Obj(<<KV("hash_key", hash_key)>>), ""),
                    sortKeyConditions, indexName, other_params)

\* the Scan input once the expression values are encoded
ScanInput(table_name, values, ExpressionAttributeNames, FilterExpression, other_params) ==
    IF IsThrow(values) THEN values
    ELSE MergeOtherParams(
            Obj(<<KV("TableName", Str(table_name)),
                  KV("ExpressionAttributeValues", values),
                  KV("ExpressionAttributeNames",
                     IF Truthy(ExpressionAttributeNames)
                     THEN ExpressionAttributeNames ELSE Undef),
                  KV("FilterExpression",
                     IF Truthy(FilterExpression) THEN FilterExpression ELSE Undef)>>),
            other_params, TRUE)

scanItemsParams(cfg, table, ExpressionAttributeValues, ExpressionAttributeNames, FilterExpression, other_params) ==
    IF Truthy(ExpressionAttributeValues) /\ TypeOf(ExpressionAttributeValues) # "object"
    THEN Throw("Error", "InvalidExpressionAttributeValues", "", "")
    ELSE IF Truthy(ExpressionAttributeNames) /\ TypeOf(ExpressionAttributeNames) # "object"
    THEN Throw("Error", "InvalidExpressionAttributeNames", "", "")
    ELSE IF Truthy(FilterExpression) /\ TypeOf(FilterExpression) # "string"
    THEN Throw("Error", "InvalidFilterExpression", "", "")
    ELSE IF Truthy(other_params) /\ TypeOf(other_params) # "object"
    THEN Throw("Error", "InvalidOtherParams", "", "")
    ELSE IF ~HasTable(cfg, table) THEN CannotReadProperty("table_name")
    ELSE ScanInput(cfg[table].table_name,
                   IF Truthy(ExpressionAttributeValues)
                   THEN convertToDynamoDBAttributeValue(cfg, ExpressionAttributeValues, "")
                   ELSE Undef,
                   ExpressionAttributeNames, FilterExpression, other_params)

\* the default value of the other_params binding (applies to undefined only)
DefaultOtherParams(other_params, returnValues) ==
    IF other_params = Undef THEN Obj(<<KV("ReturnValues", Str(returnValues))>>)
    ELSE other_params

\* ...other_params inside an object literal
SpreadEntries(v) == IF v.t \in {"null", "undefined"} THEN <<>> ELSE Entries(v)

RECURSIVE SetUpdates(_, _)
\* the forEach callback of updateItem over the encoded updates
SetUpdates(p, es) ==
    IF es = <<>> THEN p
    ELSE IF Prop(p, "ExpressionAttributeNames").t # "object"
    THEN Throw("TypeError", "CannotSetProperty", "", "#" \o es[1].k)
    ELSE IF Prop(p, "ExpressionAttributeValues").t # "object"
    THEN Throw("TypeError", "CannotSetProperty", "", ":" \o es[1].k)
    ELSE SetUpdates(
            SetProp(SetProp(p, "ExpressionAttributeNames",
                            SetProp(Prop(p, "ExpressionAttributeNames"),
                                    "#" \o es[1].k, Str(es[1].k))),
                    "ExpressionAttributeValues",
                    SetProp(Prop(p, "ExpressionAttributeValues"),
                            ":" \o es[1].k, es[1].v)),
            Tail(es))

\* mutant: the attribute name is written without its '#' alias
UpdateArray_unaliased(es) == [i \in 1..Len(es) |-> es[i].k \o " = :" \o es[i].k]

\* Object.keys(updates).map(key => `#${key} = :${key}`)
UpdateArray(es) == [i \in 1..Len(es) |-> "#" \o es[i].k \o " = :" \o es[i].k]

\* params.UpdateExpression += updateArray.join(", ")
WithUpdateExpression(p, es) ==
    IF IsThrow(p) THEN p
    ELSE SetProp(p, "UpdateExpression",
                 Str(ToStringJS(Prop(p, "UpdateExpression")) \o Join(UpdateArray(es), ", ")))

\* the UpdateItem input once the key and the updates are encoded
UpdateInput(table_name, Key, encoded, other_params) ==
    IF IsThrow(Key) THEN Key
    ELSE IF IsThrow(encoded) THEN encoded
    ELSE WithUpdateExpression(
            SetUpdates(
                AssignAll(
                    Obj(<<KV("TableName", Str(table_name)),
                          KV("Key", Key),
                          KV("UpdateExpression", Str("SET ")),
                          KV("ExpressionAttributeNames", Obj(<<>>)),
                          KV("ExpressionAttributeValues", Obj(<<>>))>>),
                    SpreadEntries(DefaultOtherParams(other_params, "ALL_NEW"))),
                Entries(encoded)),
            Entries(encoded))

updateItemParams(cfg, table, key, updates, other_params) ==
    IF ~Truthy(key) \/ TypeOf(key) # "object"
    THEN Throw("Error", "InvalidKeyParameter", "", "")
    ELSE IF ~Truthy(updates) \/ TypeOf(updates) # "object"
    THEN Throw("Error", "InvalidUpdatesParameter", "", "")
    ELSE IF ~HasTable(cfg, table)
    THEN Throw("TypeError", "CannotDestructureUndefined", "", "hash_key")
    ELSE IF IsThrow(MissingKey(cfg[table], key)) THEN MissingKey(cfg[table], key)
    ELSE UpdateInput(cfg[table].table_name,
                     convertToDynamoDBAttributeValue(cfg, key, table),
                     convertToDynamoDBAttributeValue(cfg, updates, table),
                     other_params)

\* the DeleteItem input once the key is encoded
DeleteInput(table_name, Key, other_params) ==
    IF IsThrow(Key) THEN Key
    ELSE AssignAll(Obj(<<KV("TableName", Str(table_name)), KV("Key", Key)>>),
                   SpreadEntries(DefaultOtherParams(other_params, "NONE")))

deleteItemParams(cfg, table, key, other_params) ==
    IF ~Truthy(key) \/ TypeOf(key) # "object"
    THEN Throw("Error", "InvalidKeyParameter", "", "")
    ELSE IF ~HasTable(cfg, table)
    THEN Throw("TypeError", "CannotDestructureUndefined", "", "hash_key")
    ELSE IF IsThrow(MissingKey(cfg[table], key)) THEN MissingKey(cfg[table], key)
    ELSE DeleteInput(cfg[table].table_name,
                     convertToDynamoDBAttributeValue(cfg, key, table), other_params)

\* params.ExpressionAttributeNames[`#${key}`] = key, seen from other_params:
\* the spread copied the caller's nested map by reference
AliasName(other_params, k) ==
    IF HasOwn(other_params, "ExpressionAttributeNames")
    THEN SetProp(other_params, "ExpressionAttributeNames",
                 SetProp(Prop(other_params, "ExpressionAttributeNames"), "#" \o k, Str(k)))
    ELSE other_params

\* params.ExpressionAttributeValues[`:${key}`] = value, seen from other_params
AliasValue(other_params, k, v) ==
    IF HasOwn(other_params, "ExpressionAttributeValues")
    THEN SetProp(other_params, "ExpressionAttributeValues",
                 SetProp(Prop(other_params, "ExpressionAttributeValues"), ":" \o k, v))
    ELSE other_params

RECURSIVE AliasInto(_, _)
\* the forEach callback of updateItem over the encoded updates, seen from the
\* caller's other_params; an assignment to a map that is not an object throws
\* and ends the loop
AliasInto(other_params, es) ==
    IF es = <<>> THEN other_params
    ELSE IF HasOwn(other_params, "ExpressionAttributeNames")
            /\ Prop(other_params, "ExpressionAttributeNames").t # "object"
    THEN other_params
    ELSE IF HasOwn(other_params, "ExpressionAttributeValues")
            /\ Prop(other_params, "ExpressionAttributeValues").t # "object"
    THEN AliasName(other_params, es[1].k)
    ELSE AliasInto(AliasValue(AliasName(other_params, es[1].k), es[1].k, es[1].v),
                   Tail(es))

\* the arguments of call c as the caller holds them once the synchronous
\* prefix of the handler has run and produced built.  Only updateItem writes
\* through a reference it received: every other handler copies what it
\* changes.
CallerAfter(cfg, c, built) ==
    IF c.op = "updateItem" /\ c.other_params.t = "object"
       /\ (~IsThrow(built) \/ built.msg = "CannotSetProperty")
    THEN [c EXCEPT !.other_params =
                AliasInto(c.other_params,
                          Entries(convertToDynamoDBAttributeValue(cfg, c.updates, c.table)))]
    ELSE c

\* the block  if (other_params) { ... }  of batchGetItem: here the projection
\* callback runs before params.ExpressionAttributeNames is created
BatchGetOtherParams(p, other_params) ==
    IF ~Truthy(other_params) THEN p
    ELSE IF Truthy(Prop(other_params, "ProjectionExpression"))
            /\ Prop(other_params, "ProjectionExpression").t # "string"
    THEN NotAFunction("split")
    ELSE IF Truthy(Prop(other_params, "ProjectionExpression"))
    THEN Throw("TypeError", "CannotSetPropertiesOfUndefined", "",
               "#" \o Split(Prop(other_params, "ProjectionExpression").s, ", ")[1])
    ELSE IF Truthy(Prop(other_params, "ExpressionAttributeValues"))
    THEN NotDefined("convertToDynamoDBAttributeValue")
    ELSE AssignAll(
            SetProp(SetProp(p, "ExpressionAttributeNames",
                            Obj(SpreadOrEmpty(Prop(other_params,
                                                   "ExpressionAttributeNames")))),
                    "ExpressionAttributeValues", Obj(<<>>)),
            Rest(other_params, TakenParams(TRUE)))

\* array.map(x => this.convertToDynamoDBAttributeValue(x, tableName))
EncodeEach(cfg, list, tableName) ==
    [i \in 1..Len(list.a) |-> convertToDynamoDBAttributeValue(cfg, list.a[i], tableName)]

\* params.RequestItems[table_name] = value, once value is computed
SetRequestItems(p, table_name, value) ==
    IF IsThrow(value) THEN value
    ELSE IF Prop(p, "RequestItems").t # "object"
    THEN Throw("TypeError", "CannotSetProperty", "", table_name)
    ELSE SetProp(p, "RequestItems", SetProp(Prop(p, "RequestItems"), table_name, value))

\* { Keys: get.map(...) } once every key is encoded
KeysOf(Keys) == IF HasThrow(Keys) THEN FirstThrow(Keys) ELSE Obj(<<KV("Keys", Arr(Keys))>>)

RECURSIVE BatchGetLoop(_, _, _)
\* the for...of loop of batchGetItem over Object.entries(batch_items); an
\* exception (p) ends it
BatchGetLoop(cfg, p, es) ==
    IF IsThrow(p) \/ es = <<>> THEN p
    ELSE IF ~HasTable(cfg, es[1].k) THEN CannotReadProperty("table_name")
    ELSE IF es[1].v.t \in {"null", "undefined"} THEN CannotReadProperty("get")
    ELSE IF Prop(es[1].v, "get").t # "array" \/ Len(Prop(es[1].v, "get").a) = 0
    THEN Throw("Error", "InvalidGetParameter", es[1].k, "")
    ELSE BatchGetLoop(cfg,
            SetRequestItems(p, cfg[es[1].k].table_name,
                            KeysOf(EncodeEach(cfg, Prop(es[1].v, "get"), es[1].k))),
            Tail(es))

batchGetItemParams(cfg, batch_items, other_params) ==
    IF ~Truthy(batch_items) \/ TypeOf(batch_items) # "object"
    THEN Throw("Error", "InvalidBatchItems", "", "")
    ELSE BatchGetLoop(cfg,
            BatchGetOtherParams(Obj(<<KV("RequestItems", Obj(<<>>))>>), other_params),
            Entries(batch_items))

\* list.map(x => ({ [kind]: { [field]: x } })) once every element is encoded
RequestsOf(encoded, kind, field) ==
    IF HasThrow(encoded) THEN FirstThrow(encoded)
    ELSE Arr([i \in 1..Len(encoded) |-> Obj(<<KV(kind, Obj(<<KV(field, encoded[i])>>))>>)])

\* the put requests (or the delete requests) of one table of batchWriteItem;
\* an absent list contributes no request
WriteRequests(cfg, list, tableName, kind, field) ==
    IF Truthy(list) THEN RequestsOf(EncodeEach(cfg, list, tableName), kind, field)
    ELSE Arr(<<>>)

\* mutant: the request list of a table is cut off after 25 entries
PushRequests_first25(tableName, delete, putRequests, deleteRequests) ==
    IF IsThrow(putRequests) THEN putRequests
    ELSE IF Truthy(delete) /\ (delete.t # "array" \/ Len(delete.a) = 0)
    THEN Throw("Error", "InvalidDeleteParameter", tableName, "")
    ELSE IF IsThrow(deleteRequests) THEN deleteRequests
    ELSE IF Len(putRequests.a) + Len(deleteRequests.a) > 25
    THEN Arr(SubSeq(putRequests.a \o deleteRequests.a, 1, 25))
    ELSE Arr(putRequests.a \o deleteRequests.a)

\* requests.push(...putRequests), the check of delete, requests.push(...deleteRequests)
PushRequests(tableName, delete, putRequests, deleteRequests) ==
    IF IsThrow(putRequests) THEN putRequests
    ELSE IF Truthy(delete) /\ (delete.t # "array" \/ Len(delete.a) = 0)
    THEN Throw("Error", "InvalidDeleteParameter", tableName, "")
    ELSE IF IsThrow(deleteRequests) THEN deleteRequests
    ELSE Arr(putRequests.a \o deleteRequests.a)

\* the checks and the requests of one table of batchWriteItem
TableRequests(cfg, tableName, put, delete) ==
    IF ~Truthy(put) /\ ~Truthy(delete)
    THEN Throw("Error", "EitherPutOrDeleteRequired", "", "")
    ELSE IF Truthy(put) /\ (put.t # "array" \/ Len(put.a) = 0)
    THEN Throw("Error", "InvalidPutParameter", tableName, "")
    ELSE PushRequests(tableName, delete,
            WriteRequests(cfg, put, tableName, "PutRequest", "Item"),
            WriteRequests(cfg, delete, tableName, "DeleteRequest", "Key"))

RECURSIVE BatchWriteLoop(_, _, _)
\* the forEach callback of batchWriteItem over Object.entries(batch_items);
\* an exception (p) ends it
BatchWriteLoop(cfg, p, es) ==
    IF IsThrow(p) \/ es = <<>> THEN p
    ELSE IF ~HasTable(cfg, es[1].k) THEN CannotReadProperty("table_name")
    ELSE IF es[1].v.t \in {"null", "undefined"} THEN CannotReadProperty("put")
    ELSE BatchWriteLoop(cfg,
            SetRequestItems(p, cfg[es[1].k].table_name,
                            TableRequests(cfg, es[1].k, Prop(es[1].v, "put"),
                                          Prop(es[1].v, "delete"))),
            Tail(es))

batchWriteItemParams(cfg, batch_items, other_params) ==
    IF ~Truthy(batch_items) \/ TypeOf(batch_items) # "object"
    THEN Throw("Error", "InvalidBatchItems", "", "")
    ELSE BatchWriteLoop(cfg,
            AssignAll(Obj(<<KV("RequestItems", Obj(<<>>))>>), SpreadEntries(other_params)),
            Entries(batch_items))

-----------------------------------------------------------------------------
(* What each facade operation does with the response it awaited *)

\* items.map(DynamoDBModel.convertToObject)
DecodeEach(items) ==
    IF items.t # "array" THEN NotAFunction("map")
    ELSE DecodedList([i \in 1..Len(items.a) |-> convertToObject(items.a[i])])

\* mutant: the result is keyed by the physical table name
LogicalName_physical(cfg, batch_items, table_name) == table_name

\* tableNameMap[table_name] of batchGetItem: the last logical table of
\* batch_items with that physical name
LogicalName(cfg, batch_items, table_name) ==
    LET es == Entries(batch_items)
        hits == {i \in 1..Len(es) : cfg[es[i].k].table_name = table_name}
    IN  IF hits = {} THEN "undefined"
        ELSE es[CHOOSE i \in hits : \A j \in hits : j <= i].k

\* convertedItems[tableNameMap[table_name]] = items, once items are decoded
SetConverted(convertedItems, name, items) ==
    IF IsThrow(items) THEN items ELSE SetProp(convertedItems, name, items)

RECURSIVE DemuxResponses(_, _, _, _)
\* the for...of loop of batchGetItem over Object.entries(response.Responses);
\* an exception (convertedItems) ends it
DemuxResponses(cfg, batch_items, convertedItems, es) ==
    IF IsThrow(convertedItems) \/ es = <<>> THEN convertedItems
    ELSE DemuxResponses(cfg, batch_items,
            SetConverted(convertedItems, LogicalName(cfg, batch_items, es[1].k),
                         DecodeEach(es[1].v)),
            Tail(es))

\* mutant: absence is reported as an error
AbsenceValue_error(op) == Throw("Error", "NotFound", "", "")

\* what an operation returns when the response lacks its payload:
\* ... : null,  ... : [],  ... : {}
AbsenceValue(op) ==
    CASE op = "getItem" -> Null
      [] op \in {"queryItems", "scanItems"} -> Arr(<<>>)
      [] OTHER -> Obj(<<>>)

\* the statements after the await of every facade operation
Finish(cfg, c, resp) ==
    IF c.op \in {"createItem", "batchWriteItem", "retryWithBackoff"} THEN resp
    ELSE IF resp.t \in {"null", "undefined"}
    THEN CannotReadProperty(
            CASE c.op = "getItem" -> "Item"
              [] c.op \in {"queryItems", "scanItems"} -> "Items"
              [] c.op = "batchGetItem" -> "Responses"
              [] OTHER -> "Attributes")
    ELSE
    CASE c.op = "getItem" ->
            IF Truthy(Prop(resp, "Item")) THEN convertToObject(Prop(resp, "Item"))
            ELSE AbsenceValue(c.op)
      [] c.op \in {"queryItems", "scanItems"} ->
            IF Truthy(Prop(resp, "Items")) THEN DecodeEach(Prop(resp, "Items"))
            ELSE AbsenceValue(c.op)
      [] c.op \in {"updateItem", "deleteItem"} ->
            IF Truthy(Prop(resp, "Attributes"))
            THEN convertToObject(Prop(resp, "Attributes"))
            ELSE AbsenceValue(c.op)
      [] OTHER ->
            IF Prop(resp, "Responses").t \in {"null", "undefined"}
            THEN Throw("TypeError", "CannotConvertUndefinedOrNullToObject", "", "")
            ELSE DemuxResponses(cfg, c.batch_items, Obj(<<>>),
                                Entries(Prop(resp, "Responses")))

-----------------------------------------------------------------------------
(* RetryExecutor *)

DefaultRetryableErrors == {"ProvisionedThroughputExceededException", "ThrottlingException"}
DefaultRetryOptions == [maxRetries |-> 3, baseDelay |-> 1000, exponent |-> 2]

RECURSIVE Pow(_, _)
\* Math.pow(b, e) for a natural exponent
Pow(b, e) == IF e = 0 THEN 1 ELSE b * Pow(b, e - 1)

\* mutant: every error code is treated as retryable
IsRetryable_any(retryableErrors, error) == TRUE

\* retryableErrors.includes(error.code)
IsRetryable(retryableErrors, error) == error.code \in retryableErrors

\* mutant: off by one, retryCount <= retryOptions.maxRetries
RetriesRemain_inclusive(retryOptions, count) == count <= retryOptions.maxRetries

\* retryCount < retryOptions.maxRetries
RetriesRemain(retryOptions, count) == count < retryOptions.maxRetries

\* mutant: the delay is computed from the incremented retry count
BackoffDelay_next(retryOptions, count) ==
    Pow(retryOptions.exponent, count + 1) * retryOptions.baseDelay

\* Math.pow(retryOptions.exponent, retryCount) * retryOptions.baseDelay
BackoffDelay(retryOptions, count) ==
    Pow(retryOptions.exponent, count) * retryOptions.baseDelay

\* mutant: the last error is wrapped in a new error
ExhaustedError_wrapped(error) ==
    [t |-> "throw", name |-> "RetryExhaustedError", msg |-> "retries exhausted",
     table |-> "", key |-> "", code |-> error.code]

\* what the catch block throws once the retries are used up: throw error
ExhaustedError(error) == error

\* what the catch block throws for a code that is not retryable: throw error
NonRetryableError(error) == error

\* an exception of the store client (or of a caller's operation) with error.code
StoreError(code) ==
    [t |-> "throw", name |-> "StoreError", msg |-> "store call failed", table |-> "",
     key |-> "", code |-> code]

\* the retry arguments of the running call: the facade passes none, so the
\* defaults of retryWithBackoff apply
RetryOptionsOf(c) ==
    IF c.op = "retryWithBackoff" THEN c.retryOptions ELSE DefaultRetryOptions
RetryableErrorsOf(c) ==
    IF c.op = "retryWithBackoff" THEN c.retryableErrors ELSE DefaultRetryableErrors

-----------------------------------------------------------------------------
(* The store and the inputs of the explored calls *)

S(s) == Obj(<<KV("S", Str(s))>>)
N(s) == Obj(<<KV("N", Str(s))>>)

WireVideo ==
    Obj(<<KV("userId", S("u1")), KV("id", S("v1")), KV("name", S("n"))>>)
WireSnippet ==
    Obj(<<KV("userId", S("u1")), KV("id", S("s1")), KV("start_time", N("0")),
          KV("labels", Obj(<<KV("NS", Arr(<<Str("1"), Str("-1")>>))>>))>>)

WireSample == Obj(<<KV("pk", S("a")), KV("n", N("12"))>>)

StoreCodes == {"ThrottlingException", "ProvisionedThroughputExceededException",
               "ValidationException"}

\* the responses the store may resolve a command of the operation with
StoreResponses(op) ==
    CASE op \in {"createItem", "batchWriteItem"} -> {Obj(<<>>)}
      [] op = "getItem" -> {Obj(<<>>), Obj(<<KV("Item", WireVideo)>>)}
      [] op \in {"queryItems", "scanItems"} ->
            {Obj(<<>>), Obj(<<KV("Items", Arr(<<WireSnippet, WireVideo>>))>>)}
      [] op \in {"updateItem", "deleteItem"} ->
            {Obj(<<>>), Obj(<<KV("Attributes", WireVideo)>>)}
      [] OTHER ->
            {Obj(<<KV("Responses", Obj(<<>>))>>),
             Obj(<<KV("Responses",
                      Obj(<<KV("video-ProjectBalls", Arr(<<WireVideo>>))>>))>>),
             Obj(<<KV("Responses",
                      Obj(<<KV("sample-ProjectBalls", Arr(<<WireSample>>)),
                            KV("video-ProjectBalls",
                               Arr(<<WireVideo, WireVideo>>))>>))>>)}

GoodKey == Obj(<<KV("userId", Str("u1")), KV("id", Str("v1"))>>)
OtherKey == Obj(<<KV("userId", Str("u1")), KV("id", Str("v2"))>>)
NoHashKey == Obj(<<KV("id", Str("v1"))>>)
NoRangeKey == Obj(<<KV("userId", Str("u1"))>>)
GhostKey == Obj(<<KV("userId", Str("u1")), KV("id", Str("v1")), KV("ghost", Str("x"))>>)
SampleKey == Obj(<<KV("pk", Str("a"))>>)
GoodItem == Obj(<<KV("userId", Str("u1")), KV("id", Str("v1")), KV("name", Str("n"))>>)

FacadeTables == {"video", "sample", "nosuch"}

CreateItems ==
    {Undef, Str("x"), GoodItem, NoHashKey, NoRangeKey, GhostKey, SampleKey,
     Obj(<<KV("userId", Str("u1")), KV("id", Str("v1")), KV("name", Num(5))>>),
     Obj(<<KV("pk", Str("a")), KV("n", Num(12)), KV("bin", Buf(<<1, 2>>))>>)}

KeyInputs == {Undef, Str("k"), GoodKey, NoHashKey, NoRangeKey, GhostKey, SampleKey}

GetOtherParams ==
    {Undef, Str("x"),
     Obj(<<KV("ProjectionExpression", Str("name, key"))>>),
     Obj(<<KV("ConsistentRead", Bool(TRUE)),
           KV("ExpressionAttributeNames", Obj(<<KV("#n", Str("name"))>>))>>),
     Obj(<<KV("TableName", Str("audit-ProjectBalls"))>>)}

RangeInputs ==
    {Undef, Str("x"),
     Obj(<<KV("operation", Str("between")), KV("value", Arr(<<Num(1), Num(2)>>))>>),
     Obj(<<KV("operation", Str("between")), KV("value", Arr(<<Num(1)>>))>>),
     Obj(<<KV("operation", Str("between")), KV("value", Str("12"))>>),
     Obj(<<KV("operation", Str("gt")), KV("value", Num(5))>>),
     Obj(<<KV("operation", Str("le")), KV("value", Str("v1"))>>),
     Obj(<<KV("operation", Str("begins_with")), KV("value", Str("v"))>>),
     Obj(<<KV("operation", Str("begins_with")), KV("value", Num(5))>>),
     Obj(<<KV("operation", Str("equals")), KV("value", Str("v1"))>>),
     Obj(<<KV("operation", Str("equals")), KV("value", Num(0))>>),
     Obj(<<KV("operation", Str("begins_with")), KV("value", Str(""))>>),
     Obj(<<KV("operation", Str("like")), KV("value", Str("v1"))>>)}

QueryOtherParams ==
    {Undef,
     Obj(<<KV("ProjectionExpression", Str("name, key")), KV("Limit", Num(10))>>),
     Obj(<<KV("FilterExpression", Str("#NAME = :n")),
           KV("ExpressionAttributeNames", Obj(<<KV("#NAME", Str("name"))>>)),
           KV("ExpressionAttributeValues", Obj(<<KV(":n", Str("n"))>>))>>),
     Obj(<<KV("FilterExpression", Str("attribute_exists(#NAME)")),
           KV("ExpressionAttributeNames", Obj(<<KV("#NAME", Str("name"))>>))>>),
     Obj(<<KV("KeyConditionExpression", Str("#U = :PartitionKey")),
           KV("ExpressionAttributeNames", Obj(<<KV("#U", Str("userId"))>>))>>),
     Obj(<<KV("ExpressionAttributeNames", Obj(<<KV("#PK", Str("name"))>>))>>),
     Obj(<<KV("ProjectionExpression", Str("PK, name"))>>),
     Obj(<<KV("ProjectionExpression", Str("SK"))>>)}

UpdateInputs ==
    {Undef, Obj(<<>>), Obj(<<KV("name", Str("n"))>>),
     Obj(<<KV("name", Str("n")), KV("description", Str("d"))>>),
     Obj(<<KV("ghost", Str("x"))>>), Obj(<<KV("name", Num(5))>>)}

WriteOtherParams ==
    {Undef, Null,
     Obj(<<KV("ReturnValues", Str("ALL_OLD"))>>),
     Obj(<<KV("ConditionExpression", Str("attribute_exists(id)"))>>),
     Obj(<<KV("ConditionExpression", Str("attribute_exists(#n)")),
           KV("ExpressionAttributeNames", Obj(<<KV("#n", Str("name"))>>))>>),
     Obj(<<KV("TableName", Str("audit-ProjectBalls")),
           KV("Key", Obj(<<KV("userId", S("u0")), KV("id", S("v0"))>>))>>)}

BatchGetInputs ==
    {Undef,
     Obj(<<KV("video", Obj(<<KV("get", Arr(<<GoodKey>>))>>))>>),
     Obj(<<KV("video", Obj(<<KV("get", Arr(<<GoodKey, OtherKey>>))>>)),
           KV("sample", Obj(<<KV("get", Arr(<<SampleKey>>))>>))>>),
     Obj(<<KV("video", Obj(<<KV("get", Arr(<<>>))>>))>>),
     Obj(<<KV("video", Obj(<<KV("get", Str("x"))>>))>>),
     Obj(<<KV("video", Obj(<<KV("get", Arr(<<GoodKey, NoHashKey>>))>>))>>),
     Obj(<<KV("video", Obj(<<KV("get", Arr(<<GhostKey>>))>>))>>),
     Obj(<<KV("nosuch", Obj(<<KV("get", Arr(<<GoodKey>>))>>))>>),
     Obj(<<KV("video", Obj(<<KV("get", Arr(<<GoodKey>>))>>)),
           KV("sample", Obj(<<KV("get", Arr(<<>>))>>))>>)}

BatchOtherParams ==
    {Undef, Obj(<<KV("ReturnConsumedCapacity", Str("TOTAL"))>>),
     Obj(<<KV("ProjectionExpression", Str("name"))>>)}

\* n put items of the video table with the ids v1 .. vn
ManyItems(n) ==
    Arr([i \in 1..n |->
            Obj(<<KV("userId", Str("u1")), KV("id", Str("v" \o NatToString(i)))>>)])

BatchWriteInputs ==
    {Undef,
     Obj(<<KV("video", Obj(<<KV("put", ManyItems(MaxBatchPuts))>>))>>),
     Obj(<<KV("video", Obj(<<KV("put", ManyItems(MaxBatchPuts - 4)),
                            KV("delete", Arr(<<GoodKey, OtherKey>>))>>))>>),
     Obj(<<KV("video", Obj(<<KV("put", Arr(<<GoodItem>>))>>))>>),
     Obj(<<KV("video", Obj(<<KV("put", Arr(<<GoodItem>>)),
                            KV("delete", Arr(<<OtherKey>>))>>))>>),
     Obj(<<KV("video", Obj(<<KV("delete", Arr(<<GoodKey, OtherKey>>))>>)),
           KV("sample", Obj(<<KV("put", Arr(<<SampleKey>>))>>))>>),
     Obj(<<KV("video", Obj(<<>>))>>),
     Obj(<<KV("video", Obj(<<KV("put", Arr(<<>>))>>))>>),
     Obj(<<KV("video", Obj(<<KV("put", Str("x"))>>))>>),
     Obj(<<KV("video", Obj(<<KV("put", Arr(<<GoodItem>>)),
                            KV("delete", Arr(<<>>))>>))>>),
     Obj(<<KV("video", Obj(<<KV("delete", Num(5))>>))>>),
     Obj(<<KV("video", Obj(<<KV("put", Arr(<<Obj(<<KV("name", Str("n"))>>)>>))>>))>>),
     Obj(<<KV("video", Obj(<<KV("delete", Arr(<<NoRangeKey>>))>>))>>),
     Obj(<<KV("video", Obj(<<KV("put", Arr(<<GhostKey>>))>>))>>),
     Obj(<<KV("nosuch", Obj(<<KV("put", Arr(<<GoodItem>>))>>))>>),
     Obj(<<KV("video", Obj(<<KV("put", Arr(<<GoodItem>>))>>)),
           KV("sample", Obj(<<KV("delete", Arr(<<>>))>>))>>)}

\* the retryOptions and retryableErrors a direct caller of retryWithBackoff passes
RetryOptionsInputs ==
    {DefaultRetryOptions}
    \cup {[maxRetries |-> m, baseDelay |-> 500, exponent |-> 3] : m \in 0..MaxCustomRetries}
RetryableErrorsInputs == {DefaultRetryableErrors, {"Custom"}}
DirectCodes == StoreCodes \cup {"Custom"}
DirectValues == {Str("ok"), Num(7)}

ScanValueInputs == {Undef, Str("x"), Obj(<<KV(":v", Str("a"))>>)}
ScanNameInputs == {Undef, Obj(<<KV("#f", Str("name"))>>)}
ScanFilterInputs == {Undef, Num(5), Str("#f = :v")}
ScanOtherParams ==
    {Undef, Obj(<<KV("ProjectionExpression", Str("name")), KV("Limit", Num(10))>>),
     Obj(<<KV("ExpressionAttributeValues", Obj(<<KV(":w", Num(1))>>))>>),
     Obj(<<KV("ExpressionAttributeNames", Obj(<<KV("#g", Str("key"))>>))>>)}

-----------------------------------------------------------------------------
(* The facade as a state machine: a call runs its synchronous prefix, then *)
(* awaits the operation (the store call, wrapped in retryWithBackoff when  *)
(* retry is set), sleeps between retries, and returns or throws.           *)

Init ==
    /\ config = Config0
    /\ cPc = "start"
    /\ cTable = ""
    /\ cItem = Obj(<<>>)
    /\ cEnc = Undef
    /\ cDec = Undef
    /\ FacadeIdle
    /\ RunsIdle
    /\ MutationIdle
    /\ GenIdle

\* mutant: the handler drops a table from the schema it was given
ConfigAfter_dropped(cfg, c) == [t \in DOMAIN cfg \ {"sample"} |-> cfg[t]]

\* this.config once the handler of call c has run: the handlers and the
\* encoder only read it (this.config[table], destructuring)
ConfigAfter(cfg, c) == cfg

\* entry of a call: built is what the synchronous prefix produced
Invoke(c, built, awaited) ==
    /\ pc = "idle"
    /\ call' = c
    /\ caller' = CallerAfter(config, c, built)
    /\ retryCount' = 0
    /\ outcomes' = <<>>
    /\ sent' = <<>>
    /\ sleeps' = <<>>
    /\ response' = Undef
    /\ IF IsThrow(built)
       THEN /\ pc' = "done"
            /\ params' = Undef
            /\ operation' = "none"
            /\ result' = built
       ELSE /\ pc' = "calling"
            /\ params' = built
            /\ operation' = awaited
            /\ result' = Undef
    /\ config' = ConfigAfter(config, c)
    /\ UNCHANGED <<codecVars, runVars, mutationVars, genVars>>

createItem ==
    /\ pc = "idle"
    /\ \E table \in FacadeTables, item \in CreateItems, retry \in BOOLEAN :
           Invoke([op |-> "createItem", table |-> table, item |-> item, retry |-> retry],
                  createItemParams(config, table, item), "send")

getItem ==
    /\ pc = "idle"
    /\ \E table \in FacadeTables, key \in KeyInputs, other_params \in GetOtherParams,
          retry \in BOOLEAN :
           Invoke([op |-> "getItem", table |-> table, key |-> key,
                   other_params |-> other_params, retry |-> retry],
                  getItemParams(config, table, key, other_params), "send")

queryItems ==
    /\ pc = "idle"
    /\ \E table \in {"video", "snippet", "nosuch"}, hash_key \in {Undef, Str("u1"), Num(7)},
          range_key \in RangeInputs,
          index_name \in {Undef, Str("videoId-id"), Str("nope")},
          other_params \in QueryOtherParams, retry \in BOOLEAN :
           Invoke([op |-> "queryItems", table |-> table, hash_key |-> hash_key,
                   range_key |-> range_key, index_name |-> index_name,
                   other_params |-> other_params, retry |-> retry],
                  queryItemsParams(config, table, hash_key, range_key, index_name,
                                   other_params),
                  "send")

\* with retry the awaited operation is the empty closure  async () => { }
scanItems ==
    /\ pc = "idle"
    /\ \E table \in {"snippet", "nosuch"}, ExpressionAttributeValues \in ScanValueInputs,
          ExpressionAttributeNames \in ScanNameInputs,
          FilterExpression \in ScanFilterInputs, other_params \in ScanOtherParams,
          retry \in BOOLEAN :
           Invoke([op |-> "scanItems", table |-> table,
                   ExpressionAttributeValues |-> ExpressionAttributeValues,
                   ExpressionAttributeNames |-> ExpressionAttributeNames,
                   FilterExpression |-> FilterExpression,
                   other_params |-> other_params, retry |-> retry],
                  scanItemsParams(config, table, ExpressionAttributeValues,
                                  ExpressionAttributeNames, FilterExpression, other_params),
                  IF retry THEN "noop" ELSE "send")

updateItem ==
    /\ pc = "idle"
    /\ \E table \in FacadeTables, key \in KeyInputs, updates \in UpdateInputs,
          other_params \in WriteOtherParams, retry \in BOOLEAN :
           Invoke([op |-> "updateItem", table |-> table, key |-> key, updates |-> updates,
                   other_params |-> other_params, retry |-> retry],
                  updateItemParams(config, table, key, updates, other_params), "send")

deleteItem ==
    /\ pc = "idle"
    /\ \E table \in FacadeTables, key \in KeyInputs, other_params \in WriteOtherParams,
          retry \in BOOLEAN :
           Invoke([op |-> "deleteItem", table |-> table, key |-> key,
                   other_params |-> other_params, retry |-> retry],
                  deleteItemParams(config, table, key, other_params), "send")

batchGetItem ==
    /\ pc = "idle"
    /\ \E batch_items \in BatchGetInputs, other_params \in BatchOtherParams,
          retry \in BOOLEAN :
           Invoke([op |-> "batchGetItem", batch_items |-> batch_items,
                   other_params |-> other_params, retry |-> retry],
                  batchGetItemParams(config, batch_items, other_params), "send")

batchWriteItem ==
    /\ pc = "idle"
    /\ \E batch_items \in BatchWriteInputs, other_params \in BatchOtherParams,
          retry \in BOOLEAN :
           Invoke([op |-> "batchWriteItem", batch_items |-> batch_items,
                   other_params |-> other_params, retry |-> retry],
                  batchWriteItemParams(config, batch_items, other_params), "send")

\* a direct call of the static retryWithBackoff with a caller's operation
retryWithBackoff ==
    /\ pc = "idle"
    /\ \E retryableErrors \in RetryableErrorsInputs, retryOptions \in RetryOptionsInputs :
           Invoke([op |-> "retryWithBackoff", retryableErrors |-> retryableErrors,
                   retryOptions |-> retryOptions, retry |-> TRUE],
                  Obj(<<>>), "direct")

\* what an invocation of the awaited operation may resolve with
Resolutions ==
    CASE operation = "noop" -> {Undef}
      [] operation = "direct" -> DirectValues
      [] OTHER -> StoreResponses(call.op)

\* what an invocation of the awaited operation may reject with
Rejections ==
    CASE operation = "noop" -> {}
      [] operation = "direct" -> {StoreError(code) : code \in DirectCodes}
      [] OTHER -> {StoreError(code) : code \in StoreCodes}

\* await operation() resolves: the value is returned through every frame of
\* retryWithBackoff and the facade finishes with it
OperationResolves ==
    /\ pc = "calling"
    /\ \E value \in Resolutions :
        /\ outcomes' = Append(outcomes, value)
        /\ response' = value
        /\ result' = Finish(config, call, value)
    /\ sent' = IF operation = "send" THEN Append(sent, params) ELSE sent
    /\ pc' = "done"
    /\ UNCHANGED <<config, codecVars, runVars, mutationVars, genVars, call, caller,
                   params, operation, retryCount, sleeps>>

\* await operation() rejects: without retry the error propagates; inside
\* retryWithBackoff the catch block either schedules the backoff timer or
\* rethrows
OperationRejects ==
    /\ pc = "calling"
    /\ \E error \in Rejections :
        /\ outcomes' = Append(outcomes, error)
        /\ IF call.retry /\ IsRetryable(RetryableErrorsOf(call), error)
              /\ RetriesRemain(RetryOptionsOf(call), retryCount)
           THEN /\ sleeps' = Append(sleeps, BackoffDelay(RetryOptionsOf(call), retryCount))
                /\ pc' = "sleeping"
                /\ result' = result
           ELSE /\ sleeps' = sleeps
                /\ pc' = "done"
                /\ result' = IF ~call.retry THEN error
                             ELSE IF IsRetryable(RetryableErrorsOf(call), error)
                             THEN ExhaustedError(error)
                             ELSE NonRetryableError(error)
    /\ sent' = IF operation = "send" THEN Append(sent, params) ELSE sent
    /\ UNCHANGED <<config, codecVars, runVars, mutationVars, genVars, call, caller,
                   params, operation, retryCount, response>>

\* the backoff timer fires: retryWithBackoff recurses with retryCount + 1
TimerFires ==
    /\ pc = "sleeping"
    /\ pc' = "calling"
    /\ retryCount' = retryCount + 1
    /\ UNCHANGED <<config, codecVars, runVars, mutationVars, genVars, call, caller,
                   params, operation, outcomes, sent, sleeps,
                   response, result>>

\* the caller has the result; the instance is ready for the next call
Return ==
    /\ pc = "done"
    /\ pc' = "idle"
    /\ call' = NoCall
    /\ caller' = NoCall
    /\ params' = Undef
    /\ operation' = "none"
    /\ retryCount' = 0
    /\ outcomes' = <<>>
    /\ sent' = <<>>
    /\ sleeps' = <<>>
    /\ response' = Undef
    /\ result' = Undef
    /\ UNCHANGED <<config, codecVars, runVars, mutationVars, genVars>>

Next ==
    \/ createItem
    \/ getItem
    \/ queryItems
    \/ scanItems
    \/ updateItem
    \/ deleteItem
    \/ batchGetItem
    \/ batchWriteItem
    \/ retryWithBackoff
    \/ OperationResolves
    \/ OperationRejects
    \/ TimerFires
    \/ Return

Spec == Init /\ [][Next]_vars

\* every awaited operation settles and every timer fires
FairSpec == Spec /\ WF_vars(OperationResolves \/ OperationRejects) /\ WF_vars(TimerFires)

-----------------------------------------------------------------------------
(* Claims about the retry executor *)

\* the running call awaits its operation through retryWithBackoff
Retried == pc # "idle" /\ call.retry /\ operation \in {"send", "direct"}

\* invocation i of the operation failed with a retryable error code
RetryableFailure(i) ==
    IsThrow(outcomes[i]) /\ outcomes[i].code \in RetryableErrorsOf(call)

\* invocation i of the operation failed with a code outside the retryable set
NonRetryableFailure(i) ==
    IsThrow(outcomes[i]) /\ outcomes[i].code \notin RetryableErrorsOf(call)

\* the operation failed k times with a retryable code and then succeeded
FailedThenSucceeded(k) ==
    /\ Len(outcomes) = k + 1
    /\ \A i \in 1..k : RetryableFailure(i)
    /\ ~IsThrow(outcomes[k + 1])

\* baseDelay * exponent^i for i = 0..k-1
ExpectedSleeps(opts, k) == [i \in 1..k |-> opts.baseDelay * Pow(opts.exponent, i - 1)]

\* C5: an operation that fails k times (1 <= k <= maxRetries) with a
\* retryable code and then succeeds makes retryWithBackoff return the value
\* of invocation k+1 after exactly k+1 invocations, having slept
\* baseDelay * exponent^i before retry i+1 (defaults, k = 2: 1000 then 2000)
\* and at no other time.
C5_RetryThenSucceed ==
    Retried =>
        \A k \in 1..RetryOptionsOf(call).maxRetries :
            FailedThenSucceeded(k) =>
                /\ pc = "done"
                /\ response = outcomes[k + 1]
                /\ call.op = "retryWithBackoff" => result = outcomes[k + 1]
                /\ operation = "send" => Len(sent) = k + 1
                /\ sleeps = ExpectedSleeps(RetryOptionsOf(call), k)
                /\ (RetryOptionsOf(call) = DefaultRetryOptions /\ k = 2) =>
                        sleeps = <<1000, 2000>>

C5_Witness ==
    /\ pc = "done"
    /\ call.op = "retryWithBackoff"
    /\ call.retryOptions = DefaultRetryOptions
    /\ FailedThenSucceeded(2)
    /\ sleeps = <<1000, 2000>>
    /\ result = outcomes[3]

\* C6: a failure whose code is not in the retryable set is the last
\* invocation of the operation: it is propagated to the caller unchanged,
\* with no sleep after it, also when retryable failures preceded it.
C6_NonRetryablePropagates ==
    Retried =>
        \A i \in 1..Len(outcomes) :
            NonRetryableFailure(i) =>
                /\ i = Len(outcomes)
                /\ pc = "done"
                /\ result = outcomes[i]
                /\ Len(sleeps) = i - 1

C6_Witness ==
    /\ pc = "done"
    /\ Retried
    /\ Len(outcomes) = 2
    /\ RetryableFailure(1)
    /\ NonRetryableFailure(2)
    /\ result = outcomes[2]
    /\ Len(sleeps) = 1

\* every invocation so far failed with a retryable code and none remain
Exhausted ==
    /\ Len(outcomes) = RetryOptionsOf(call).maxRetries + 1
    /\ \A i \in 1..Len(outcomes) : RetryableFailure(i)

C7_Bounded ==
    Retried =>
        /\ Len(outcomes) <= RetryOptionsOf(call).maxRetries + 1
        /\ Exhausted =>
            /\ pc = "done"
            /\ result = outcomes[Len(outcomes)]
            /\ sleeps = ExpectedSleeps(RetryOptionsOf(call),
                                       RetryOptionsOf(call).maxRetries)
            /\ RetryOptionsOf(call) = DefaultRetryOptions =>
                    /\ Len(outcomes) = 4
                    /\ sleeps = <<1000, 2000, 4000>>

\* C7: retryWithBackoff terminates when every invocation of the operation
\* terminates; the operation is never invoked more than maxRetries + 1
\* times, and when it fails with a retryable code every time it is invoked
\* exactly maxRetries + 1 times (4 with the defaults, after sleeps of 1000,
\* 2000 and 4000 ms) and the error of the last attempt is propagated.
C7_Terminates ==
    /\ []C7_Bounded
    /\ [](pc \in {"calling", "sleeping"} => <>(pc = "done"))

C7_Witness ==
    /\ pc = "done"
    /\ Retried
    /\ RetryOptionsOf(call) = DefaultRetryOptions
    /\ Exhausted
    /\ sleeps = <<1000, 2000, 4000>>
    /\ outcomes[3] # outcomes[4]
    /\ result = outcomes[4]

\* C8 as stated: after the retries are exhausted the caller receives a
\* RetryExhaustedError that wraps the last store error.
C8_WrappedInRetryExhausted ==
    (Retried /\ pc = "done" /\ Exhausted /\ Len(sleeps) >= 1) =>
        /\ IsThrow(result)
        /\ result.name = "RetryExhaustedError"

\* C8 amended: after the retries are exhausted the caller receives the last
\* attempt's store error itself, with its name and code, not wrapped; it is
\* the error a call without retry would have propagated for that attempt.
C8_LastErrorUnwrapped ==
    (Retried /\ pc = "done" /\ Exhausted /\ Len(sleeps) >= 1) =>
        /\ result = outcomes[Len(outcomes)]
        /\ result.name = "StoreError"
        /\ result.code \in RetryableErrorsOf(call)

C8_Witness ==
    /\ Retried
    /\ pc = "done"
    /\ Exhausted
    /\ call.op = "updateItem"
    /\ result = StoreError("ThrottlingException")

-----------------------------------------------------------------------------
(* Claims about the facade *)

\* a key or item that is missing, not an object, or lacks a key attribute
KeyInvalid(cfg, table, k) ==
    \/ k.t # "object"
    \/ /\ HasTable(cfg, table)
       /\ \/ ~HasOwn(k, cfg[table].hash_key)
          \/ cfg[table].range_key # "" /\ ~HasOwn(k, cfg[table].range_key)

RangeOperations == {"between", "gt", "lt", "ge", "le", "begins_with", "equals"}

\* a range condition that is not {operation, value} with a known operation
\* and a value of the shape the operation needs
RangeMalformed(r) ==
    /\ r # Undef
    /\ \/ Prop(r, "operation").t # "string"
       \/ Prop(r, "operation").s \notin RangeOperations
       \/ Prop(r, "operation").s = "between"
            /\ ~(Prop(r, "value").t = "array" /\ Len(Prop(r, "value").a) = 2)
       \/ Prop(r, "operation").s = "begins_with" /\ Prop(r, "value").t # "string"

\* a get, put or delete list that is given but is not a non-empty list
ListInvalid(l) == Truthy(l) /\ (l.t # "array" \/ Len(l.a) = 0)

\* the inputs the facade rejects as invalid
InvalidInput(cfg, c) ==
    CASE c.op = "createItem" -> KeyInvalid(cfg, c.table, c.item)
      [] c.op \in {"getItem", "updateItem", "deleteItem"} -> KeyInvalid(cfg, c.table, c.key)
      [] c.op = "queryItems" -> ~Truthy(c.hash_key) \/ RangeMalformed(c.range_key)
      [] c.op = "batchGetItem" ->
            /\ c.batch_items.t = "object"
            /\ \E i \in 1..Len(c.batch_items.o) :
                    LET get == Prop(c.batch_items.o[i].v, "get")
                    IN  get.t # "array" \/ Len(get.a) = 0
      [] c.op = "batchWriteItem" ->
            /\ c.batch_items.t = "object"
            /\ \E i \in 1..Len(c.batch_items.o) :
                    \/ ListInvalid(Prop(c.batch_items.o[i].v, "put"))
                    \/ ListInvalid(Prop(c.batch_items.o[i].v, "delete"))
      [] OTHER -> FALSE

ValidationMessages ==
    {"ItemMustBeObject", "KeyMustBeObject", "InvalidKeyParameter", "MustIncludeHashKey",
     "MustIncludeRangeKey", "HashKeyRequired", "RangeKeyOperationAndValueRequired",
     "InvalidRangeKeyBetweenValue", "InvalidRangeKeyOperation", "InvalidBatchItems",
     "InvalidGetParameter", "InvalidPutParameter", "InvalidDeleteParameter",
     "EitherPutOrDeleteRequired", "InvalidUpdatesParameter", "OtherParamsMustBeObject",
     "InvalidExpressionAttributeValues", "InvalidExpressionAttributeNames",
     "InvalidFilterExpression", "InvalidOtherParams"}

\* C3: a call with an invalid key, item, hash value, range condition or
\* batch list throws before any store call: it is over at once with an
\* exception, no command sent and no backoff sleep, also when retry = true;
\* and no validation error is ever raised after a store call or a sleep.
C3_ValidationBeforeStore ==
    /\ (pc # "idle" /\ InvalidInput(config, call)) =>
            /\ pc = "done"
            /\ IsThrow(result)
            /\ sent = <<>>
            /\ sleeps = <<>>
            /\ outcomes = <<>>
    /\ (IsThrow(result) /\ result.msg \in ValidationMessages) =>
            /\ sent = <<>>
            /\ sleeps = <<>>

C3_Witness ==
    /\ pc = "done"
    /\ call.op = "queryItems"
    /\ call.retry
    /\ HasTable(config, call.table)
    /\ IsThrow(result)
    /\ result.msg = "InvalidRangeKeyBetweenValue"
    /\ sent = <<>>

\* obj carries the hash key attribute of the table, and its range key
\* attribute when the table has one
HasKeys(tableConfig, obj) ==
    /\ HasOwn(obj, tableConfig.hash_key)
    /\ tableConfig.range_key # "" => HasOwn(obj, tableConfig.range_key)

\* every Key of a batch get and every Item or Key of a batch write for the
\* logical table tableName carries the table's key attributes
BatchRequestHasKeys(cfg, c, request, tableName) ==
    LET entry == Prop(Prop(request, "RequestItems"), cfg[tableName].table_name)
        list == IF c.op = "batchGetItem" THEN Prop(entry, "Keys") ELSE entry
    IN  \A i \in 1..Len(list.a) :
            LET r == list.a[i]
                obj == IF c.op = "batchGetItem" THEN r
                       ELSE IF HasOwn(r, "PutRequest")
                       THEN Prop(Prop(r, "PutRequest"), "Item")
                       ELSE Prop(Prop(r, "DeleteRequest"), "Key")
            IN  HasKeys(cfg[tableName], obj)

RequestHasKeys(cfg, c, request) ==
    CASE c.op = "createItem" -> HasKeys(cfg[c.table], Prop(request, "Item"))
      [] c.op \in {"getItem", "updateItem", "deleteItem"} ->
            HasKeys(cfg[c.table], Prop(request, "Key"))
      [] c.op \in {"batchGetItem", "batchWriteItem"} ->
            \A i \in 1..Len(c.batch_items.o) :
                BatchRequestHasKeys(cfg, c, request, c.batch_items.o[i].k)
      [] OTHER -> TRUE

\* C4: every command sent by createItem, getItem, updateItem, deleteItem,
\* batchGetItem or batchWriteItem carries, in its Item or Key and in every
\* element of a batch's get, put and delete lists, the table's hash key
\* attribute and its range key attribute when the table defines one.
C4_SentKeysComplete ==
    \A i \in 1..Len(sent) : RequestHasKeys(config, call, sent[i])

\* C9: scanItems whose arguments pass validation sends one Scan command per
\* attempt, built from the caller's FilterExpression and name/value maps,
\* and returns the decoded items of the response, with and without retry.
C9_ScanSendsAndDecodes ==
    (pc = "done" /\ call.op = "scanItems" /\ params # Undef) =>
        /\ Len(sent) = Len(outcomes)
        /\ Len(sent) >= 1
        /\ \A i \in 1..Len(sent) :
            /\ sent[i] = params
            /\ Prop(sent[i], "FilterExpression") =
                    (IF Truthy(call.FilterExpression) THEN call.FilterExpression
                     ELSE Undef)
        /\ ~IsThrow(outcomes[Len(outcomes)]) =>
                result = (IF Truthy(Prop(response, "Items"))
                          THEN DecodeEach(Prop(response, "Items")) ELSE Arr(<<>>))

\* the call names a table that is not in the configuration and is
\* otherwise well formed
UnknownTableCall(cfg, c) ==
    CASE c.op = "createItem" -> ~HasTable(cfg, c.table) /\ c.item.t = "object"
      [] c.op = "getItem" ->
            ~HasTable(cfg, c.table) /\ c.key.t = "object" /\ c.other_params = Undef
      [] c.op = "deleteItem" ->
            ~HasTable(cfg, c.table) /\ c.key.t = "object" /\ c.other_params = Undef
      [] c.op = "updateItem" ->
            /\ ~HasTable(cfg, c.table) /\ c.key.t = "object"
            /\ c.updates.t = "object" /\ c.other_params = Undef
      [] c.op = "queryItems" ->
            /\ ~HasTable(cfg, c.table) /\ Truthy(c.hash_key) /\ c.range_key = Undef
            /\ c.index_name = Undef /\ c.other_params = Undef
      [] c.op = "scanItems" ->
            /\ ~HasTable(cfg, c.table)
            /\ c.ExpressionAttributeValues.t \in {"undefined", "object"}
            /\ c.FilterExpression.t \in {"undefined", "string"}
            /\ c.other_params = Undef
      [] c.op \in {"batchGetItem", "batchWriteItem"} ->
            /\ c.batch_items.t = "object"
            /\ c.other_params = Undef
            /\ ~InvalidInput(cfg, c)
            /\ \E i \in 1..Len(c.batch_items.o) : ~HasTable(cfg, c.batch_items.o[i].k)
      [] OTHER -> FALSE

Undeclared(cfg, table, obj) ==
    /\ obj.t = "object"
    /\ \E i \in 1..Len(obj.o) : AttributeType(cfg[table], obj.o[i].k) = NoTag

\* the call names a known table and is well formed, but an attribute of
\* its item, key or updates is declared nowhere in the table
UndeclaredAttributeCall(cfg, c) ==
    CASE c.op = "createItem" ->
            HasTable(cfg, c.table) /\ ~InvalidInput(cfg, c)
            /\ Undeclared(cfg, c.table, c.item)
      [] c.op \in {"getItem", "deleteItem"} ->
            /\ HasTable(cfg, c.table) /\ ~InvalidInput(cfg, c)
            /\ c.other_params = Undef
            /\ Undeclared(cfg, c.table, c.key)
      [] c.op = "updateItem" ->
            /\ HasTable(cfg, c.table) /\ ~InvalidInput(cfg, c)
            /\ c.other_params = Undef /\ c.updates.t = "object"
            /\ Undeclared(cfg, c.table, c.key) \/ Undeclared(cfg, c.table, c.updates)
      [] OTHER -> FALSE

\* C10: a facade call that names a table missing from the configuration,
\* or passes an attribute declared neither in the table's attributes nor in
\* its key attributes, fails at once with an error that identifies the
\* unknown table or attribute, and sends nothing to the store.
C10_SchemaErrorsFailFast ==
    /\ (pc # "idle" /\ UnknownTableCall(config, call)) =>
            /\ pc = "done"
            /\ sent = <<>>
            /\ IsThrow(result)
            /\ result.name = "Error"
            /\ result.msg \in {"TableDoesNotExist", "TableNotDefined"}
            /\ ~HasTable(config, result.table)
    /\ (pc # "idle" /\ UndeclaredAttributeCall(config, call)) =>
            /\ pc = "done"
            /\ sent = <<>>
            /\ IsThrow(result)
            /\ result.msg = "AttributeNotDefined"
            /\ AttributeType(config[call.table], result.key) = NoTag

-----------------------------------------------------------------------------
(* Claims about the expressions of queryItems *)

StartsWith(s, prefix) == Len(s) >= Len(prefix) /\ SubSeq(s, 1, Len(prefix)) = prefix

\* the hash and range key attribute of the named index, else of the table
HashKeyNameOf(cfg, c) ==
    IF c.index_name = Undef THEN cfg[c.table].hash_key
    ELSE cfg[c.table].indexes[c.index_name.s].hash_key
RangeKeyNameOf(cfg, c) ==
    IF c.index_name = Undef THEN cfg[c.table].range_key
    ELSE cfg[c.table].indexes[c.index_name.s].range_key

\* the request starts its key condition with the partition-key equality and
\* binds its two placeholders to the hash key attribute and the hash value
BindsPartitionKey(cfg, c, request) ==
    /\ Prop(request, "KeyConditionExpression").t = "string"
    /\ StartsWith(Prop(request, "KeyConditionExpression").s, "#PK = :PartitionKey")
    /\ Prop(Prop(request, "ExpressionAttributeNames"), "#PK") = Str(HashKeyNameOf(cfg, c))
    /\ Prop(Prop(request, "ExpressionAttributeValues"), ":PartitionKey")
            = InferredByShape(c.hash_key)

RebindsPartitionKey(other_params) ==
    \/ HasOwn(other_params, "KeyConditionExpression")
    \/ HasOwn(Prop(other_params, "ExpressionAttributeNames"), "#PK")
    \/ /\ Prop(other_params, "ProjectionExpression").t = "string"
       /\ \E i \in 1..Len(Split(Prop(other_params, "ProjectionExpression").s, ", ")) :
            Split(Prop(other_params, "ProjectionExpression").s, ", ")[i] = "PK"

ScalarBound(v) == v.t = "string" \/ (v.t = "number" /\ ~v.nan)

\* a range condition {operation, value} whose operation is one of the seven
\* and whose value has the type the operation admits
WellFormedRange(r) ==
    /\ r.t = "object"
    /\ Prop(r, "operation").t = "string"
    /\ Prop(r, "operation").s \in RangeOperations
    /\ CASE Prop(r, "operation").s = "between" ->
                /\ Prop(r, "value").t = "array"
                /\ Len(Prop(r, "value").a) = 2
                /\ \A i \in 1..2 : ScalarBound(Prop(r, "value").a[i])
         [] Prop(r, "operation").s = "begins_with" -> Prop(r, "value").t = "string"
         [] OTHER -> ScalarBound(Prop(r, "value"))

\* the clause each operation stands for
ClauseOf(op) ==
    CASE op = "between" -> " AND #SK BETWEEN :start AND :end"
      [] op = "gt" -> " AND #SK > :gt"
      [] op = "lt" -> " AND #SK < :lt"
      [] op = "ge" -> " AND #SK >= :ge"
      [] op = "le" -> " AND #SK <= :le"
      [] op = "begins_with" -> " AND begins_with(#SK, :begins_with)"
      [] OTHER -> " AND #SK = :equals"

\* the value placeholders of the clause with the values they stand for
BoundValuesOf(r) ==
    IF Prop(r, "operation").s = "between"
    THEN {<<":start", Prop(r, "value").a[1]>>, <<":end", Prop(r, "value").a[2]>>}
    ELSE {<<":" \o Prop(r, "operation").s, Prop(r, "value")>>}

\* a queryItems call that is valid but for its range condition, with an
\* other_params that adds no expression values and no key condition
QueryableCall(cfg, c) ==
    /\ c.op = "queryItems"
    /\ HasTable(cfg, c.table)
    /\ Truthy(c.hash_key)
    /\ c.index_name # Undef =>
            cfg[c.table].hasIndexes /\ c.index_name.s \in DOMAIN cfg[c.table].indexes
    /\ ~HasOwn(c.other_params, "ExpressionAttributeValues")
    /\ ~HasOwn(c.other_params, "KeyConditionExpression")

\* C14: for a range condition {operation, value} with a value of the
\* admissible type (0 and the empty string included) the Query request has
\* exactly one clause after the partition-key equality: the operation's
\* clause on '#SK', with '#SK' bound to the range key attribute of the table
\* or index and each value placeholder bound to the encoded value (between
\* [1, 2] binds :start to {N: '1'} and :end to {N: '2'}).
C14_RangeClause ==
    (pc # "idle" /\ QueryableCall(config, call) /\ WellFormedRange(call.range_key)) =>
        /\ params # Undef
        /\ Prop(params, "KeyConditionExpression")
                = Str("#PK = :PartitionKey"
                        \o ClauseOf(Prop(call.range_key, "operation").s))
        /\ Prop(Prop(params, "ExpressionAttributeNames"), "#SK")
                = Str(RangeKeyNameOf(config, call))
        /\ \A b \in BoundValuesOf(call.range_key) :
                Prop(Prop(params, "ExpressionAttributeValues"), b[1])
                    = InferredByShape(b[2])
        /\ Prop(call.range_key, "value") = Arr(<<Num(1), Num(2)>>) =>
                /\ Prop(Prop(params, "ExpressionAttributeValues"), ":start") = N("1")
                /\ Prop(Prop(params, "ExpressionAttributeValues"), ":end") = N("2")

\* a queryItems or scanItems call that is valid, whatever its other_params
\* adds to the expression maps
ExpressionCall(cfg, c) ==
    /\ c.op \in {"queryItems", "scanItems"}
    /\ HasTable(cfg, c.table)
    /\ c.other_params.t = "object"
    /\ c.op = "queryItems" =>
            /\ Truthy(c.hash_key)
            /\ c.index_name # Undef =>
                    /\ cfg[c.table].hasIndexes
                    /\ c.index_name.s \in DOMAIN cfg[c.table].indexes
            /\ c.range_key # Undef =>
                    WellFormedRange(c.range_key) /\ Truthy(Prop(c.range_key, "value"))
    /\ c.op = "scanItems" =>
            /\ c.ExpressionAttributeValues.t \in {"undefined", "object"}
            /\ c.FilterExpression.t \in {"undefined", "string"}

\* every entry of the caller's map is in the request's map, values encoded
HoldsCallerNames(request, names) ==
    \A i \in 1..Len(Entries(names)) :
        Prop(Prop(request, "ExpressionAttributeNames"), Entries(names)[i].k)
            = Entries(names)[i].v
HoldsCallerValues(request, values) ==
    \A i \in 1..Len(Entries(values)) :
        Prop(Prop(request, "ExpressionAttributeValues"), Entries(values)[i].k)
            = InferredByShape(Entries(values)[i].v)

\* the entries the operation generates itself are in the request's maps
HoldsGenerated(c, request) ==
    /\ c.op = "queryItems" =>
            /\ HasOwn(Prop(request, "ExpressionAttributeNames"), "#PK")
            /\ HasOwn(Prop(request, "ExpressionAttributeValues"), ":PartitionKey")
            /\ c.range_key # Undef =>
                    /\ HasOwn(Prop(request, "ExpressionAttributeNames"), "#SK")
                    /\ \A b \in BoundValuesOf(c.range_key) :
                            HasOwn(Prop(request, "ExpressionAttributeValues"), b[1])
    /\ Prop(c.other_params, "ProjectionExpression").t = "string" =>
            \A i \in 1..Len(Split(Prop(c.other_params, "ProjectionExpression").s, ", ")) :
                HasOwn(Prop(request, "ExpressionAttributeNames"),
                       "#" \o Split(Prop(c.other_params, "ProjectionExpression").s, ", ")[i])

\* C15: a valid queryItems or scanItems call whose other_params carries
\* ExpressionAttributeNames and/or ExpressionAttributeValues is not rejected:
\* its request is built and holds every name and every encoded value of the
\* caller together with the generated entries.
C15_CallerPlaceholdersMerged ==
    (pc # "idle" /\ ExpressionCall(config, call)
        /\ (\/ HasOwn(call.other_params, "ExpressionAttributeNames")
            \/ HasOwn(call.other_params, "ExpressionAttributeValues"))) =>
        /\ params # Undef
        /\ HoldsCallerNames(params, Prop(call.other_params, "ExpressionAttributeNames"))
        /\ HoldsCallerValues(params, Prop(call.other_params, "ExpressionAttributeValues"))
        /\ HoldsGenerated(call, params)

-----------------------------------------------------------------------------
(* Claims about updateItem, deleteItem and the batch operations *)

\* the ReturnValues an operation asks for when the caller names none
DefaultReturnValues(op) == IF op = "updateItem" THEN Str("ALL_NEW") ELSE Str("NONE")

\* C16: every UpdateItem request carries ReturnValues = ALL_NEW and every
\* DeleteItem request ReturnValues = NONE unless other_params sets
\* ReturnValues itself, both when other_params is omitted and when it is
\* supplied without a ReturnValues entry.
C16_DefaultReturnValues ==
    (call.op \in {"updateItem", "deleteItem"}
        /\ ~HasOwn(call.other_params, "ReturnValues")) =>
        \A i \in 1..Len(sent) :
            Prop(sent[i], "ReturnValues") = DefaultReturnValues(call.op)

RECURSIVE AssignmentList(_)
\* the assignments '#k = :k' of the entries es, joined by ', '
AssignmentList(es) ==
    IF es = <<>> THEN ""
    ELSE IF Len(es) = 1 THEN "#" \o es[1].k \o " = :" \o es[1].k
    ELSE "#" \o es[1].k \o " = :" \o es[1].k \o ", " \o AssignmentList(Tail(es))

\* an updateItem call with a complete, well typed key and an updates mapping
\* whose attributes are all declared and well typed
WellTypedUpdate(cfg, c) ==
    /\ c.op = "updateItem"
    /\ HasTable(cfg, c.table)
    /\ ~KeyInvalid(cfg, c.table, c.key)
    /\ SchemaTyped(cfg, c.table, c.key)
    /\ SchemaTyped(cfg, c.table, c.updates)

\* other_params carries none of the expression fields updateItem generates
PlainOtherParams(c) ==
    \A k \in {"UpdateExpression", "ExpressionAttributeNames",
              "ExpressionAttributeValues"} : ~HasOwn(c.other_params, k)

\* C17: for an updates mapping of n >= 0 declared, well typed attributes
\* (and an other_params that carries no expression field of its own)
\* updateItem issues one UpdateItem request per attempt whose
\* UpdateExpression is 'SET ' followed by the n assignments '#k = :k' joined
\* by ', ' in the mapping's order, whose ExpressionAttributeNames hold
\* '#k' = k and whose ExpressionAttributeValues hold ':k' = the encoded
\* value for exactly those n attributes; for n = 0 the expression is 'SET '
\* and the request is still issued.
C17_UpdateExpression ==
    (pc # "idle" /\ WellTypedUpdate(config, call) /\ PlainOtherParams(call)) =>
        /\ params # Undef
        /\ pc = "done" => Len(sent) >= 1 /\ (~call.retry => Len(sent) = 1)
        /\ \A i \in 1..Len(sent) : sent[i] = params
        /\ Prop(params, "UpdateExpression")
                = Str("SET " \o AssignmentList(call.updates.o))
        /\ Prop(params, "ExpressionAttributeNames")
                = Obj([i \in 1..Len(call.updates.o) |->
                        KV("#" \o call.updates.o[i].k, Str(call.updates.o[i].k))])
        /\ Prop(params, "ExpressionAttributeValues")
                = Obj([i \in 1..Len(call.updates.o) |->
                        KV(":" \o call.updates.o[i].k,
                           InferredByShape(call.updates.o[i].v))])

C17_Witness ==
    /\ pc = "done"
    /\ call.op = "updateItem"
    /\ call.updates = Obj(<<>>)
    /\ Len(sent) = 1
    /\ Prop(sent[1], "UpdateExpression") = Str("SET ")
    /\ Prop(sent[1], "ExpressionAttributeNames") = Obj(<<>>)
    /\ ~IsThrow(result)

\* the plain items the wire items of the store's responses stand for
PlainVideo ==
    Obj(<<KV("userId", Str("u1")), KV("id", Str("v1")), KV("name", Str("n"))>>)
PlainSnippet ==
    Obj(<<KV("userId", Str("u1")), KV("id", Str("s1")), KV("start_time", Num(0)),
          KV("labels", Arr(<<Num(1), Num(-1)>>))>>)

\* the store answered the last command of the running call successfully
StoreAnswered ==
    /\ pc = "done"
    /\ operation = "send"
    /\ Len(sent) >= 1
    /\ response = outcomes[Len(outcomes)]
    /\ ~IsThrow(response)

\* C18: absence in a successful store response is returned as a value, never
\* as an error: getItem returns null without an Item, updateItem and
\* deleteItem an empty mapping without Attributes, queryItems and scanItems
\* an empty sequence without Items; otherwise each returns the decoding of
\* what the store returned.
C18_AbsenceIsAValue ==
    StoreAnswered =>
        CASE call.op = "getItem" ->
                result = IF HasOwn(response, "Item") THEN PlainVideo ELSE Null
          [] call.op \in {"updateItem", "deleteItem"} ->
                result = IF HasOwn(response, "Attributes") THEN PlainVideo
                         ELSE Obj(<<>>)
          [] call.op \in {"queryItems", "scanItems"} ->
                result = IF HasOwn(response, "Items")
                         THEN Arr(<<PlainSnippet, PlainVideo>>)
                         ELSE Arr(<<>>)
          [] OTHER -> TRUE

C18_Witness ==
    /\ StoreAnswered
    /\ call.op = "getItem"
    /\ call.retry
    /\ Len(sent) = 2
    /\ response = Obj(<<>>)
    /\ result = Null

PlainSample == Obj(<<KV("pk", Str("a")), KV("n", Num(12))>>)

\* the plain item a wire item of the store's responses stands for
PlainItem(w) ==
    CASE w = WireVideo -> PlainVideo
      [] w = WireSnippet -> PlainSnippet
      [] OTHER -> PlainSample

\* a key of declared string attributes as the schema encodes it
EncodedKey(k) == Obj([i \in 1..Len(k.o) |-> KV(k.o[i].k, InferredByShape(k.o[i].v))])

\* the get list of a table is given as a non-empty list
GetListValid(tableData) ==
    Prop(tableData, "get").t = "array" /\ Len(Prop(tableData, "get").a) > 0

\* a batchGetItem call whose tables are configured and whose keys hold
\* declared, well typed attributes only
WellFormedBatchGet(cfg, c) ==
    /\ c.op = "batchGetItem"
    /\ c.batch_items.t = "object"
    /\ ~HasOwn(c.other_params, "ProjectionExpression")
    /\ \A i \in 1..Len(c.batch_items.o) :
            /\ HasTable(cfg, c.batch_items.o[i].k)
            /\ GetListValid(c.batch_items.o[i].v)
            /\ \A j \in 1..Len(Prop(c.batch_items.o[i].v, "get").a) :
                    SchemaTyped(cfg, c.batch_items.o[i].k,
                                Prop(c.batch_items.o[i].v, "get").a[j])

\* RequestItems: physical name |-> { Keys: the encoded keys in order }
RequestItemsOf(cfg, batch_items) ==
    Obj([i \in 1..Len(batch_items.o) |->
            KV(cfg[batch_items.o[i].k].table_name,
               Obj(<<KV("Keys",
                        Arr([j \in 1..Len(Prop(batch_items.o[i].v, "get").a) |->
                                EncodedKey(Prop(batch_items.o[i].v, "get").a[j])]))>>))])

\* the logical table of the call whose physical name is table_name
RequestedAs(cfg, batch_items, table_name) ==
    {batch_items.o[i].k : i \in {j \in 1..Len(batch_items.o) :
                                    cfg[batch_items.o[j].k].table_name = table_name}}

\* the response names only tables the call asked for
AnswersRequest(cfg, c, resp) ==
    \A i \in 1..Len(Prop(resp, "Responses").o) :
        RequestedAs(cfg, c.batch_items, Prop(resp, "Responses").o[i].k) # {}

\* logical name |-> the decoded items, for every table of the response
DemuxOf(cfg, c, resp) ==
    Obj([i \in 1..Len(Prop(resp, "Responses").o) |->
            KV(CHOOSE n \in RequestedAs(cfg, c.batch_items,
                                        Prop(resp, "Responses").o[i].k) : TRUE,
               Arr([j \in 1..Len(Prop(resp, "Responses").o[i].v.a) |->
                        PlainItem(Prop(resp, "Responses").o[i].v.a[j])]))])

\* C19: batchGetItem issues one request per attempt whose RequestItems maps
\* the physical name of every requested logical table to its schema-encoded
\* keys in the caller's order; it returns a mapping from the logical name of
\* every table of the response to that table's decoded items; and it fails
\* before any store call when a table's get list is empty or not a list.
C19_BatchGetDemux ==
    /\ (pc # "idle" /\ WellFormedBatchGet(config, call)) =>
            /\ params # Undef
            /\ Prop(params, "RequestItems") = RequestItemsOf(config, call.batch_items)
            /\ \A i \in 1..Len(sent) : sent[i] = params
            /\ (pc = "done" /\ ~call.retry) => Len(sent) = 1
            /\ (StoreAnswered /\ AnswersRequest(config, call, response)) =>
                    result = DemuxOf(config, call, response)
    /\ (pc # "idle" /\ call.op = "batchGetItem" /\ call.batch_items.t = "object"
            /\ \E i \in 1..Len(call.batch_items.o) :
                    ~GetListValid(call.batch_items.o[i].v)) =>
            /\ pc = "done"
            /\ IsThrow(result)
            /\ sent = <<>>

C19_Witness ==
    /\ StoreAnswered
    /\ call.op = "batchGetItem"
    /\ Len(call.batch_items.o) = 2
    /\ Len(sent) = 1
    /\ Len(Prop(Prop(Prop(sent[1], "RequestItems"), "video-ProjectBalls"), "Keys").a) = 2
    /\ result = Obj(<<KV("sample", Arr(<<PlainSample>>)),
                      KV("video", Arr(<<PlainVideo, PlainVideo>>))>>)

\* the elements of a put or delete list; none when the list is absent
ListOf(l) == IF l.t = "array" THEN l.a ELSE <<>>

\* a put or delete list is absent or a non-empty list of declared, well
\* typed attributes
WriteListValid(cfg, tableName, l) ==
    \/ l = Undef
    \/ /\ l.t = "array"
       /\ Len(l.a) > 0
       /\ \A j \in 1..Len(l.a) : SchemaTyped(cfg, tableName, l.a[j])

\* a batchWriteItem call whose tables are configured and give valid lists
WellFormedBatchWrite(cfg, c) ==
    /\ c.op = "batchWriteItem"
    /\ c.batch_items.t = "object"
    /\ \A i \in 1..Len(c.batch_items.o) :
            /\ HasTable(cfg, c.batch_items.o[i].k)
            /\ WriteListValid(cfg, c.batch_items.o[i].k,
                              Prop(c.batch_items.o[i].v, "put"))
            /\ WriteListValid(cfg, c.batch_items.o[i].k,
                              Prop(c.batch_items.o[i].v, "delete"))
            /\ \/ Prop(c.batch_items.o[i].v, "put") # Undef
               \/ Prop(c.batch_items.o[i].v, "delete") # Undef

\* the N PutRequests followed by the M DeleteRequests of one table
WritesOf(tableData) ==
    Arr([j \in 1..Len(ListOf(Prop(tableData, "put"))) |->
            Obj(<<KV("PutRequest",
                     Obj(<<KV("Item",
                              EncodedKey(ListOf(Prop(tableData, "put"))[j]))>>))>>)]
        \o [j \in 1..Len(ListOf(Prop(tableData, "delete"))) |->
            Obj(<<KV("DeleteRequest",
                     Obj(<<KV("Key",
                              EncodedKey(ListOf(Prop(tableData, "delete"))[j]))>>))>>)])

\* C20: batchWriteItem does no chunking: for a table with N put items and M
\* delete keys every attempt is one BatchWriteItem call whose request list
\* for that table has the N PutRequests in the caller's order followed by
\* the M DeleteRequests in the caller's order, N + M entries, also when
\* N + M exceeds 25; the call is not rejected.
C20_NoChunking ==
    (pc # "idle" /\ WellFormedBatchWrite(config, call)) =>
        /\ params # Undef
        /\ \A i \in 1..Len(call.batch_items.o) :
                /\ Prop(Prop(params, "RequestItems"),
                        config[call.batch_items.o[i].k].table_name)
                        = WritesOf(call.batch_items.o[i].v)
                /\ Len(WritesOf(call.batch_items.o[i].v).a)
                        = Len(ListOf(Prop(call.batch_items.o[i].v, "put")))
                            + Len(ListOf(Prop(call.batch_items.o[i].v, "delete")))
        /\ \A i \in 1..Len(sent) : sent[i] = params
        /\ Len(sent) <= Len(outcomes)
        /\ pc = "done" => Len(sent) = Len(outcomes) /\ Len(sent) >= 1

C20_Witness ==
    /\ pc = "done"
    /\ call.op = "batchWriteItem"
    /\ Prop(Prop(call.batch_items, "video"), "put") = ManyItems(MaxBatchPuts)
    /\ Len(sent) = 1
    /\ Len(Prop(Prop(sent[1], "RequestItems"), "video-ProjectBalls").a) = MaxBatchPuts
    /\ MaxBatchPuts > 25
    /\ ~IsThrow(result)

-----------------------------------------------------------------------------
(* Claims about what a facade call leaves alone *)

FacadeOperations ==
    {"getItem", "queryItems", "scanItems", "updateItem", "deleteItem", "batchGetItem",
     "batchWriteItem"}

\* C27: no facade operation modifies an object supplied by the caller: once
\* getItem, queryItems, scanItems, updateItem, deleteItem, batchGetItem or
\* batchWriteItem has returned or thrown, the key, item, updates and
\* other_params objects, the ExpressionAttributeNames and
\* ExpressionAttributeValues maps nested in other_params included, equal
\* their values before the call.
C27_CallerObjectsUntouched ==
    (pc = "done" /\ call.op \in FacadeOperations) => caller = call

-----------------------------------------------------------------------------
(* Claims about the fields of the issued request *)

\* the operations that take a logical table and issue a request on it
TableOperations ==
    {"createItem", "getItem", "queryItems", "scanItems", "updateItem", "deleteItem"}

\* request names the physical table of call c, carries the schema-encoded
\* key of c where the operation addresses one item, and keeps the expression
\* the operation generates
KeepsGeneratedFields(cfg, c, request) ==
    /\ Prop(request, "TableName") = Str(cfg[c.table].table_name)
    /\ c.op \in {"getItem", "updateItem", "deleteItem"} =>
            Prop(request, "Key") = EncodedKey(c.key)
    /\ c.op = "queryItems" =>
            /\ Prop(request, "KeyConditionExpression").t = "string"
            /\ StartsWith(Prop(request, "KeyConditionExpression").s, "#PK = :PartitionKey")
    /\ c.op = "updateItem" =>
            /\ Prop(request, "UpdateExpression").t = "string"
            /\ StartsWith(Prop(request, "UpdateExpression").s, "SET ")

\* C26: for every facade operation and every caller-supplied other_params
\* the issued request's TableName is the physical table name configured for
\* the logical table of the call, and for getItem, updateItem and deleteItem
\* its Key is the schema encoding of the supplied key; entries of
\* other_params cannot replace TableName, Key or the generated
\* key-condition/update expression.
C26_OtherParamsCannotReplace ==
    (call.op \in TableOperations /\ HasTable(config, call.table)) =>
        \A i \in 1..Len(sent) : KeepsGeneratedFields(config, call, sent[i])

\* call c passes a projection field list 'f1, f2, ..., fn' with n >= 1
Projected(c) ==
    /\ c.op \in {"getItem", "queryItems", "scanItems"}
    /\ c.other_params.t = "object"
    /\ Prop(c.other_params, "ProjectionExpression").t = "string"
    /\ Prop(c.other_params, "ProjectionExpression").s # ""

\* the fields f1 .. fn of the projection of call c
FieldsOf(c) == Split(Prop(c.other_params, "ProjectionExpression").s, ", ")

RECURSIVE AliasList(_)
\* '#f1, #f2, ..., #fn'
AliasList(fields) ==
    IF Len(fields) = 1 THEN "#" \o fields[1]
    ELSE "#" \o fields[1] \o ", " \o AliasList(Tail(fields))

\* the name placeholders the request needs besides those of the projection:
\* the caller's own and the ones the key condition uses
HoldsOtherNames(cfg, c, request) ==
    /\ Prop(c.other_params, "ExpressionAttributeNames").t = "object" =>
            HoldsCallerNames(request, Prop(c.other_params, "ExpressionAttributeNames"))
    /\ c.op = "queryItems" =>
            /\ Prop(Prop(request, "ExpressionAttributeNames"), "#PK")
                    = Str(HashKeyNameOf(cfg, c))
            /\ c.range_key # Undef =>
                    Prop(Prop(request, "ExpressionAttributeNames"), "#SK")
                        = Str(RangeKeyNameOf(cfg, c))

\* C25: for a projection field list 'f1, f2, ..., fn' passed to getItem,
\* queryItems or scanItems the issued request's ProjectionExpression is
\* '#f1, #f2, ..., #fn' in the same order and its ExpressionAttributeNames
\* maps '#fi' to fi for every i, in addition to the other name placeholders
\* of the request.
C25_ProjectionAliased ==
    Projected(call) =>
        \A i \in 1..Len(sent) :
            /\ Prop(sent[i], "ProjectionExpression") = Str(AliasList(FieldsOf(call)))
            /\ \A j \in 1..Len(FieldsOf(call)) :
                    Prop(Prop(sent[i], "ExpressionAttributeNames"), "#" \o FieldsOf(call)[j])
                        = Str(FieldsOf(call)[j])
            /\ HoldsOtherNames(config, call, sent[i])

\* a batchGetItem call on configured tables with non-empty lists of well
\* typed keys, whose other_params carries a projection field list
ProjectedBatchGet(cfg, c) ==
    /\ c.op = "batchGetItem"
    /\ c.batch_items.t = "object"
    /\ c.other_params.t = "object"
    /\ Prop(c.other_params, "ProjectionExpression").t = "string"
    /\ Prop(c.other_params, "ProjectionExpression").s # ""
    /\ \A i \in 1..Len(c.batch_items.o) :
            /\ HasTable(cfg, c.batch_items.o[i].k)
            /\ GetListValid(c.batch_items.o[i].v)
            /\ \A j \in 1..Len(Prop(c.batch_items.o[i].v, "get").a) :
                    SchemaTyped(cfg, c.batch_items.o[i].k,
                                Prop(c.batch_items.o[i].v, "get").a[j])

\* C29: batchGetItem called with other_params that contains a
\* ProjectionExpression reaches the store: it issues the batch request with
\* each projected field aliased to '#<field>' and the aliases recorded in
\* ExpressionAttributeNames, and returns the decoded items, as getItem,
\* queryItems and scanItems do for the same projection.
C29_BatchGetProjection ==
    (pc # "idle" /\ ProjectedBatchGet(config, call)) =>
        /\ params # Undef
        /\ pc = "done" => Len(sent) >= 1
        /\ Prop(params, "ProjectionExpression") = Str(AliasList(FieldsOf(call)))
        /\ \A j \in 1..Len(FieldsOf(call)) :
                Prop(Prop(params, "ExpressionAttributeNames"), "#" \o FieldsOf(call)[j])
                    = Str(FieldsOf(call)[j])
        /\ (StoreAnswered /\ AnswersRequest(config, call, response)) =>
                result = DemuxOf(config, call, response)

-----------------------------------------------------------------------------
(* Concurrent executions of retryWithBackoff.  Every execution is a chain  *)
(* of async frames of its own: operation, retryableErrors, retryOptions    *)
(* and retryCount are parameters of the frame, and the static method reads *)
(* nothing else.  runs[i] is the record of execution i.                    *)

\* the error codes and the value an awaited operation may settle with
RunCodes == {"ThrottlingException", "ValidationException", "Custom"}
RunValue == Obj(<<>>)

\* retryWithBackoff(operation, retryableErrors, retryOptions) is entered:
\* the first frame has retryCount = 0 and invokes operation() at once
StartRun(request, retryableErrors, retryOptions) ==
    [request |-> request, retryableErrors |-> retryableErrors,
     retryOptions |-> retryOptions, pc |-> "calling", retryCount |-> 0,
     outcomes |-> <<>>, sent |-> <<request>>, sleeps |-> <<>>, result |-> Undef]

\* mutant: the attempts of all executions are counted together
FrameCount_shared(rs, i) == rs[1].retryCount + rs[Len(rs)].retryCount

\* the retryCount parameter of the running frame of execution i
FrameCount(rs, i) == rs[i].retryCount

\* execution i retries after error: retryable code and retries left
RunRetries(rs, i, error) ==
    /\ IsRetryable(rs[i].retryableErrors, error)
    /\ RetriesRemain(rs[i].retryOptions, FrameCount(rs, i))

\* the record of execution i once its operation rejected with error
RunAfterError(rs, i, error) ==
    IF RunRetries(rs, i, error)
    THEN [rs[i] EXCEPT !.outcomes = Append(@, error),
                       !.sleeps = Append(@, BackoffDelay(rs[i].retryOptions,
                                                         FrameCount(rs, i))),
                       !.pc = "sleeping"]
    ELSE [rs[i] EXCEPT !.outcomes = Append(@, error),
                       !.pc = "done",
                       !.result = IF IsRetryable(rs[i].retryableErrors, error)
                                  THEN ExhaustedError(error)
                                  ELSE NonRetryableError(error)]

\* execution i has returned a value / has thrown
RunOk(r) == r.pc = "done" /\ ~IsThrow(r.result)
RunFailed(r) == r.pc = "done" /\ IsThrow(r.result)

\* await operation() resolves in execution i: the store has applied the
\* request and the value is returned through every frame
RunResolves ==
    \E i \in DOMAIN runs :
        /\ runs[i].pc = "calling"
        /\ runs' = [runs EXCEPT ![i] = [@ EXCEPT !.outcomes = Append(@, RunValue),
                                                 !.pc = "done",
                                                 !.result = RunValue]]
        /\ written' = Append(written, runs[i].request)
        /\ UNCHANGED <<config, codecVars, facadeVars, genVars, mPc, snippets,
                       deleteArray, s3sent, mResult>>

\* await operation() rejects in execution i: the catch block schedules the
\* backoff timer or rethrows; an execution awaited by the Promise.all of
\* deleteSnippets that throws rejects the mutation at once
RunRejects ==
    \E i \in DOMAIN runs, code \in RunCodes :
        /\ runs[i].pc = "calling"
        /\ runs' = [runs EXCEPT ![i] = RunAfterError(runs, i, StoreError(code))]
        /\ IF mPc = "writing" /\ ~RunRetries(runs, i, StoreError(code))
           THEN /\ mPc' = "done"
                /\ mResult' = RunAfterError(runs, i, StoreError(code)).result
           ELSE UNCHANGED <<mPc, mResult>>
        /\ UNCHANGED <<config, codecVars, facadeVars, genVars, snippets, deleteArray,
                       written, s3sent>>

\* the backoff timer of execution i fires: the next frame has retryCount + 1
\* and invokes operation() again
RunTimerFires ==
    \E i \in DOMAIN runs :
        /\ runs[i].pc = "sleeping"
        /\ runs' = [runs EXCEPT ![i] = [@ EXCEPT !.pc = "calling",
                                                 !.retryCount = @ + 1,
                                                 !.sent = Append(@, runs[i].request)]]
        /\ UNCHANGED <<config, codecVars, facadeVars, genVars, mutationVars>>

\* two executions started by independent callers, each with its own
\* operation, retryable codes and retry options
PairInit ==
    /\ config = Config0
    /\ cPc = "start"
    /\ cTable = ""
    /\ cItem = Obj(<<>>)
    /\ cEnc = Undef
    /\ cDec = Undef
    /\ FacadeIdle
    /\ MutationIdle
    /\ GenIdle
    /\ \E e1 \in RetryableErrorsInputs, e2 \in RetryableErrorsInputs,
          o1 \in RetryOptionsInputs, o2 \in RetryOptionsInputs :
            runs = <<StartRun(Str("first"), e1, o1), StartRun(Str("second"), e2, o2)>>

PairNext == RunResolves \/ RunRejects \/ RunTimerFires

PairSpec == PairInit /\ [][PairNext]_vars

-----------------------------------------------------------------------------
(* The deleteSnippets mutation: the descriptors of the snippets are cut    *)
(* into chunks, every chunk is written with batchWriteItem(params, true),  *)
(* all at once under Promise.all, and the objects are deleted afterwards.  *)

batchSize == 25
UserId == "u1"
S3DataBucket == "data-bucket"

\* a snippets argument of n snippets with the ids s1 .. sn
SnippetsInput(n) ==
    Arr([i \in 1..n |->
            Obj(<<KV("id", Str("s" \o NatToString(i))),
                  KV("key", Str("u1/video-v1/snippets/s" \o NatToString(i) \o ".mp4"))>>)])

\* snippets.map(({ id }) => ({ id, userId }))
snippetArrayOf(snips, userId) ==
    [i \in 1..Len(snips.a) |->
        Obj(<<KV("id", Prop(snips.a[i], "id")), KV("userId", Str(userId))>>)]

\* snippets.map(({ key }) => key)
keyArrayOf(snips) == [i \in 1..Len(snips.a) |-> Prop(snips.a[i], "key")]

\* mutant: the chunk of an entry is computed from its one-based position
BatchIndex_oneBased(index) == (index + 1) \div batchSize

\* Math.floor(index / batchSize)
BatchIndex(index) == index \div batchSize

RECURSIVE ReduceChunks(_, _, _)
\* snippetArray.reduce(callback, []) from index on, acc being the accumulator
\* so far: the callback creates acc[batchIndex] when it is missing and pushes
\* the entry onto it (batchIndex never skips a position)
ReduceChunks(acc, array, index) ==
    IF index = Len(array) THEN acc
    ELSE IF BatchIndex(index) + 1 > Len(acc)
    THEN ReduceChunks(Append(acc, <<array[index + 1]>>), array, index + 1)
    ELSE ReduceChunks([acc EXCEPT ![BatchIndex(index) + 1] = Append(@, array[index + 1])],
                      array, index + 1)

\* { batch_items: { snippet: { delete: snippets } } }
BatchWriteParams(chunk) ==
    Obj(<<KV("snippet", Obj(<<KV("delete", Arr(chunk))>>))>>)

\* mutant: the chunks are written one after the other, so only the first is
\* issued when the mutation starts
IssuedChunks_first(cfg, array) ==
    [i \in 1..(IF array = <<>> THEN 0 ELSE 1) |->
        StartRun(batchWriteItemParams(cfg, BatchWriteParams(array[i]), Undef),
                 DefaultRetryableErrors, DefaultRetryOptions)]

\* deleteArray.map(async snippets => batchWriteItem(batchWriteParams, true)):
\* every callback runs up to its store call before Promise.all is awaited
IssuedChunks(cfg, array) ==
    [i \in 1..Len(array) |->
        StartRun(batchWriteItemParams(cfg, BatchWriteParams(array[i]), Undef),
                 DefaultRetryableErrors, DefaultRetryOptions)]

\* mutant: the objects are deleted as soon as one chunk is written
AllWritten_any(rs) == rs = <<>> \/ \E i \in DOMAIN rs : RunOk(rs[i])

\* await Promise.all(...) resolves: every batch write has returned
AllWritten(rs) == \A i \in DOMAIN rs : RunOk(rs[i])

\* the command deleteSnippetHandler builds for key
deleteSnippetInput(bucket, key) ==
    IF key.t = "string"
    THEN [command |-> "DeleteObjectCommand",
          input |-> Obj(<<KV("Bucket", bucket), KV("Key", key)>>)]
    ELSE IF key.t = "array"
    THEN [command |-> "DeleteObjectsCommand",
          input |-> Obj(<<KV("Bucket", bucket),
                          KV("Delete",
                             Obj(<<KV("Objects",
                                      Arr([i \in 1..Len(key.a) |->
                                              Obj(<<KV("Key", key.a[i])>>)]))>>))>>)]
    ELSE [command |-> "undefined", input |-> Obj(<<KV("Bucket", bucket)>>)]

MutationInit ==
    /\ config = Config0
    /\ cPc = "start"
    /\ cTable = ""
    /\ cItem = Obj(<<>>)
    /\ cEnc = Undef
    /\ cDec = Undef
    /\ FacadeIdle
    /\ RunsIdle
    /\ GenIdle
    /\ mPc = "start"
    /\ snippets \in {SnippetsInput(n) : n \in 0..MaxSnippets}
    /\ deleteArray = <<>>
    /\ written = <<>>
    /\ s3sent = <<>>
    /\ mResult = Undef

\* the synchronous prefix of the resolver, up to await Promise.all
deleteSnippets ==
    /\ mPc = "start"
    /\ deleteArray' = ReduceChunks(<<>>, snippetArrayOf(snippets, UserId), 0)
    /\ runs' = IssuedChunks(config, ReduceChunks(<<>>, snippetArrayOf(snippets, UserId), 0))
    /\ mPc' = "writing"
    /\ UNCHANGED <<config, codecVars, facadeVars, genVars, snippets, written, s3sent,
                   mResult>>

\* Promise.all has resolved: deleteSnippetHandler sends its command
deleteSnippetHandler ==
    /\ mPc = "writing"
    /\ AllWritten(runs)
    /\ s3sent' = Append(s3sent,
                        deleteSnippetInput(Str(S3DataBucket), Arr(keyArrayOf(snippets))))
    /\ mPc' = "deleting"
    /\ UNCHANGED <<config, codecVars, facadeVars, genVars, runVars, snippets, deleteArray,
                   written, mResult>>

\* s3Client.send resolves: the mutation returns the ids
ObjectsDeleted ==
    /\ mPc = "deleting"
    /\ mResult' = Arr([i \in 1..Len(snippets.a) |-> Prop(snippets.a[i], "id")])
    /\ mPc' = "done"
    /\ UNCHANGED <<config, codecVars, facadeVars, genVars, runVars, snippets, deleteArray,
                   written, s3sent>>

\* s3Client.send rejects: the mutation throws the error
ObjectsNotDeleted ==
    /\ mPc = "deleting"
    /\ mResult' = StoreError("InternalError")
    /\ mPc' = "done"
    /\ UNCHANGED <<config, codecVars, facadeVars, genVars, runVars, snippets, deleteArray,
                   written, s3sent>>

MutationNext ==
    \/ deleteSnippets
    \/ RunResolves
    \/ RunRejects
    \/ RunTimerFires
    \/ deleteSnippetHandler
    \/ ObjectsDeleted
    \/ ObjectsNotDeleted

MutationSpec == MutationInit /\ [][MutationNext]_vars

-----------------------------------------------------------------------------
(* Claims about concurrent executions *)

\* the retries execution r has been granted: every outcome but the one that
\* ended it was followed by a retry
Granted(r) == IF r.pc = "done" THEN Len(r.outcomes) - 1 ELSE Len(r.outcomes)

\* outcome j of r is a failure with one of r's retryable codes
OwnRetryable(r, j) ==
    IsThrow(r.outcomes[j]) /\ r.outcomes[j].code \in r.retryableErrors

\* the attempt count, delays, issued requests and result of r are those its
\* own outcomes, retryable codes and retry options determine
StandsAlone(r) ==
    /\ \A j \in 1..Granted(r) : OwnRetryable(r, j) /\ j <= r.retryOptions.maxRetries
    /\ r.sleeps = ExpectedSleeps(r.retryOptions, Granted(r))
    /\ r.retryCount = IF r.pc = "sleeping" THEN Granted(r) - 1 ELSE Granted(r)
    /\ r.sent = [j \in 1..(r.retryCount + 1) |-> r.request]
    /\ r.pc # "done" => r.result = Undef
    /\ r.pc = "done" =>
            /\ r.result = r.outcomes[Len(r.outcomes)]
            /\ OwnRetryable(r, Len(r.outcomes)) => Granted(r) = r.retryOptions.maxRetries

-----------------------------------------------------------------------------
(* Claims about deleteSnippets *)

\* ceil(n / d)
CeilDiv(n, d) == (n + d - 1) \div d

RECURSIVE Flatten(_)
\* the concatenation of the chunks in order
Flatten(seqs) == IF seqs = <<>> THEN <<>> ELSE Head(seqs) \o Flatten(Tail(seqs))

\* the resolver is past its synchronous prefix
Partitioned == mPc \in {"writing", "deleting", "done"}

\* C21: the batch partitioner in deleteSnippets splits a list of N delete
\* descriptors into exactly ceil(N/25) chunks: every chunk is non-empty and
\* has at most 25 entries, every chunk but the last has exactly 25, and the
\* chunks concatenated in order are the original list; one batch write is
\* called per chunk, and N = 0 yields zero chunks and zero batch-write calls.
C21_Partition ==
    Partitioned =>
        /\ Len(deleteArray) = CeilDiv(Len(snippets.a), 25)
        /\ \A b \in DOMAIN deleteArray :
                /\ Len(deleteArray[b]) \in 1..25
                /\ b < Len(deleteArray) => Len(deleteArray[b]) = 25
        /\ Flatten(deleteArray) = snippetArrayOf(snippets, UserId)
        /\ Len(runs) = Len(deleteArray)
        /\ Len(snippets.a) = 0 => (deleteArray = <<>> /\ runs = <<>> /\ written = <<>>)

\* a list of more than 50 descriptors has been cut into three chunks
C21_Witness ==
    /\ Partitioned
    /\ Len(snippets.a) > 50
    /\ Len(deleteArray) = 3
    /\ Len(deleteArray[1]) = 25
    /\ Len(deleteArray[3]) = Len(snippets.a) - 50

\* C24: the batch-write chunks are issued concurrently and independently:
\* every chunk is issued when the mutation starts; the writes of a chunk
\* that succeeded are applied in the store and stay applied whatever the
\* other chunks do and in whatever order they complete; and when a chunk's
\* batch write fails the mutation reports the failure.
C24_ChunksIndependent ==
    Partitioned =>
        /\ Len(runs) = Len(deleteArray)
        /\ \A b \in DOMAIN runs :
                /\ Len(runs[b].sent) >= 1
                /\ RunOk(runs[b]) <=> \E k \in DOMAIN written : written[k] = runs[b].request
        /\ Len(written) = Cardinality({b \in DOMAIN runs : RunOk(runs[b])})
        /\ (\E b \in DOMAIN runs : RunFailed(runs[b])) => (mPc = "done" /\ IsThrow(mResult))

\* the second of three chunks has failed; the third and then the first were
\* applied, and the mutation has thrown
C24_Witness ==
    /\ Len(runs) = 3
    /\ RunFailed(runs[2])
    /\ written = <<runs[3].request, runs[1].request>>
    /\ mPc = "done"
    /\ IsThrow(mResult)

\* the DeleteObjects command naming the keys of all snippets in the caller's
\* order
ExpectedDelete(snips) ==
    [command |-> "DeleteObjectsCommand",
     input |->
        Obj(<<KV("Bucket", Str(S3DataBucket)),
              KV("Delete",
                 Obj(<<KV("Objects",
                          Arr([i \in 1..Len(snips.a) |->
                                  Obj(<<KV("Key", Prop(snips.a[i], "key"))>>)]))>>))>>)]

\* C28: in deleteSnippets the object-storage deletion is issued only after
\* every batch-write chunk has completed successfully: if any chunk's batch
\* write fails no object-storage delete is issued and the mutation fails;
\* if all succeed exactly one object-storage delete is issued, carrying the
\* keys of all the snippets in the caller's order.
C28_ObjectsAfterWrites ==
    /\ Len(s3sent) <= 1
    /\ s3sent # <<>> =>
            /\ \A b \in DOMAIN runs : RunOk(runs[b])
            /\ s3sent[1] = ExpectedDelete(snippets)
    /\ (\E b \in DOMAIN runs : RunFailed(runs[b])) =>
            (s3sent = <<>> /\ mPc = "done" /\ IsThrow(mResult))
    /\ (mPc \in {"deleting", "done"} /\ \A b \in DOMAIN runs : RunOk(runs[b])) =>
            Len(s3sent) = 1

\* three chunks were written, one of them at its second attempt, and the
\* objects were deleted with one command
C28_Witness ==
    /\ mPc = "done"
    /\ ~IsThrow(mResult)
    /\ Len(runs) = 3
    /\ \E b \in DOMAIN runs : Len(runs[b].outcomes) = 2
    /\ s3sent = <<ExpectedDelete(snippets)>>

-----------------------------------------------------------------------------
(* The schema generator: appDynamodbConfig of .polymer/gen.js turns the    *)
(* provisioning description of the tables into the application schema.     *)

\* delete schema.read_capacity, .write_capacity, .projection_type
cleanIndexSchema(schema) ==
    Obj(Rest(schema, {"read_capacity", "write_capacity", "projection_type"}))

\* Object.fromEntries(Object.entries(indexes).map(([k, v]) => [k, cleanIndexSchema(v)]))
CleanedIndexes(indexes) ==
    Obj([i \in 1..Len(Entries(indexes)) |->
            KV(Entries(indexes)[i].k, cleanIndexSchema(Entries(indexes)[i].v))])

\* one turn of the loop over the two index types: the try block assigns
\* schema.indexes and deletes the source property; Object.entries throws on
\* a missing property and the catch block swallows it
IndexStep(schema, indexType) ==
    IF Prop(schema, indexType).t \in {"undefined", "null"} THEN schema
    ELSE Obj(Rest(SetProp(schema, "indexes", CleanedIndexes(Prop(schema, indexType))),
                  {indexType}))

\* the body of the loop over the tables
CleanTable(key, schema, applicationName) ==
    SetProp(cleanIndexSchema(IndexStep(IndexStep(schema, "global_secondary_index"),
                                       "local_secondary_index")),
            "table_name", Str(key \o "-" \o applicationName))

\* the value appDynamodbConfig returns; it works on _.cloneDeep(config)
appDynamodbConfig(cfg, applicationName) ==
    Obj([i \in 1..Len(cfg.o) |->
            KV(cfg.o[i].k, CleanTable(cfg.o[i].k, cfg.o[i].v, applicationName))])

\* index definitions as infrastructure.yml writes them
IndexDefinition(hash, range) ==
    Obj(<<KV("hash_key", Str(hash)), KV("range_key", Str(range)),
          KV("write_capacity", Num(2)), KV("read_capacity", Num(2)),
          KV("projection_type", Str("ALL"))>>)

GlobalIndexInputs ==
    {Undef,
     Obj(<<KV("videoId-id", IndexDefinition("videoId", "id"))>>),
     Obj(<<KV("videoId-id", IndexDefinition("videoId", "id")),
           KV("name-id", IndexDefinition("name", "id"))>>)}

LocalIndexInputs ==
    {Undef, Obj(<<KV("userId-name", IndexDefinition("userId", "name"))>>)}

\* a table description with the given index properties (absent when undefined)
TableDefinition(gsi, lsi) ==
    Obj(SelectSeq(<<KV("hash_key", Str("userId")), KV("range_key", Str("id")),
                    KV("global_secondary_index", gsi),
                    KV("local_secondary_index", lsi),
                    KV("read_capacity", Num(2)), KV("write_capacity", Num(2))>>,
                  LAMBDA e : e.v # Undef))

TableDefinitions ==
    {TableDefinition(gsi, lsi) : gsi \in GlobalIndexInputs, lsi \in LocalIndexInputs}

GenConfigs ==
    {Obj(<<KV("snippet", t)>>) : t \in TableDefinitions}
    \cup {Obj(<<KV("video", t), KV("snippet", u)>>) :
            t \in TableDefinitions, u \in TableDefinitions}

ApplicationNames == {"ProjectBalls", "dev"}

GenInit ==
    /\ config = Config0
    /\ cPc = "start"
    /\ cTable = ""
    /\ cItem = Obj(<<>>)
    /\ cEnc = Undef
    /\ cDec = Undef
    /\ FacadeIdle
    /\ RunsIdle
    /\ MutationIdle
    /\ gPc = "start"
    /\ \E c \in GenConfigs, n \in ApplicationNames :
            /\ gCall = [op |-> "appDynamodbConfig", config |-> c, applicationName |-> n]
            /\ gConfig = c
    /\ gOut = Undef

\* the call runs: the caller's object is left alone because every write goes
\* to the deep copy
Generate ==
    /\ gPc = "start"
    /\ gOut' = appDynamodbConfig(gConfig, gCall.applicationName)
    /\ gConfig' = gConfig
    /\ gPc' = "done"
    /\ UNCHANGED <<config, codecVars, facadeVars, runVars, mutationVars, gCall>>

GenNext == Generate

GenSpec == GenInit /\ [][GenNext]_vars

-----------------------------------------------------------------------------
(* Claims about the schema generator *)

\* the entries of the index property kind of table, none when it is absent
IndexEntries(table, kind) ==
    IF Prop(table, kind).t = "object" THEN Prop(table, kind).o ELSE <<>>

\* indexes holds entry e with its hash_key and range_key and without the
\* provisioning properties
HoldsIndex(indexes, e) ==
    /\ HasOwn(indexes, e.k)
    /\ Prop(Prop(indexes, e.k), "hash_key") = Prop(e.v, "hash_key")
    /\ Prop(Prop(indexes, e.k), "range_key") = Prop(e.v, "range_key")
    /\ \A k \in {"read_capacity", "write_capacity", "projection_type"} :
            ~HasOwn(Prop(indexes, e.k), k)

\* out is the application schema of input table e
SchemaOfTable(e, out, applicationName) ==
    /\ Prop(out, "table_name") = Str(e.k \o "-" \o applicationName)
    /\ \A kind \in {"global_secondary_index", "local_secondary_index"} :
            \A i \in 1..Len(IndexEntries(e.v, kind)) :
                HoldsIndex(Prop(out, "indexes"), IndexEntries(e.v, kind)[i])

\* C30: appDynamodbConfig builds the application schema without modifying
\* its input configuration: for every table of the input the output table
\* has table_name = '<logical name>-<applicationName>' and an indexes mapping
\* that contains every entry of the table's global_secondary_index and of
\* its local_secondary_index (each with its hash_key and range_key, stripped
\* of read_capacity, write_capacity and projection_type), also when a table
\* defines both kinds of index.
C30_SchemaGenerated ==
    gPc = "done" =>
        /\ gConfig = gCall.config
        /\ \A i \in 1..Len(gCall.config.o) :
                /\ HasOwn(gOut, gCall.config.o[i].k)
                /\ SchemaOfTable(gCall.config.o[i], Prop(gOut, gCall.config.o[i].k),
                                 gCall.applicationName)


====
